---- MODULE Spec2Model ----
(***************************************************************************)
(* A model of the IDR benchmarking tool: the filter-option cache of        *)
(* BenchmarkingService.getFilterOptions, the benchmark request path        *)
(* (getProviderBenchmark / getPeerBenchmark -> POST /api/benchmark ->      *)
(* get_provider_benchmark) and the dashboard's runBenchmarkAnalysis.       *)
(*                                                                         *)
(* JavaScript values are strings; UNDEF stands for the value undefined (a  *)
(* property that is absent reads as UNDEF), EMPTY is the empty string and  *)
(* NULL stands for null / SQL NULL.                                        *)
(***************************************************************************)
EXTENDS Integers, Sequences, FiniteSets, TLC

VARIABLES
    \* ---- filter-option cache (lib/benchmarking.ts) ----
    filterCache,   \* the Map: a sequence of entries in key-insertion order
    now,           \* Date.now(), in milliseconds
    inflight,      \* getFilterOptions calls suspended at `await fetch`
    callCount,     \* getFilterOptions calls started so far
    storeCount,    \* filterCache.set calls so far (history)
    failed,        \* history: the calls whose fetch failed
    lastCall,      \* history: what the latest call did when it was invoked
    lastDone,      \* history: what the latest completed fetch did
    \* ---- one benchmark comparison (lib/benchmarking.ts, api/benchmark) ----
    store,         \* the rows of idr_disputes
    bFilters,      \* the BenchmarkFilters both service calls are given
    bStage,        \* per call ("mine", "peer"): idle, sent, responded, returned
    bReq,          \* per call: the HTTP request sent
    bResp,         \* per call: the HTTP response (with history fields)
    bRet,          \* per call: the value the service call returned
    \* ---- the dashboard (BenchmarkingDashboard) ----
    dFilters,      \* useState filters
    practiceName,  \* useState practiceName
    emailDomain,   \* useState emailDomain
    facilityGroup, \* useState facilityGroup
    loading,       \* useState loading
    providerMetrics, \* useState providerMetrics
    peerMetrics,   \* useState peerMetrics
    insights,      \* useState insights
    runs,          \* runBenchmarkAnalysis invocations suspended at Promise.all
    invokeLog,     \* history: every invocation of runBenchmarkAnalysis
    \* ---- one call of BenchmarkingService.generateInsights ----
    insProvider,   \* argument providerMetrics
    insPeer,       \* argument peerMetrics
    insUserType,   \* argument userType
    insResult,     \* the returned list (NotCalled before the call)
    \* ---- the service-code analytics of one POST /api/benchmark ----
    anCohort,      \* the disputes the analytics filters select, in store order
    anResult,      \* the service-code part of analyticsData
    \* ---- the search endpoints (practice, email domain, facility group) ----
    sStore,        \* the rows of idr_disputes
    sReq,          \* the latest GET request
    sResp,         \* its response
    sExecuted,     \* history: the store queries that request executed
    \* ---- the dashboard's entity search and autofill ----
    practiceData,  \* useState practiceData (practiceNameSuggestions are its names)
    selectedPractice, \* useState selectedPractice
    emailDomainSuggestions,   \* useState emailDomainSuggestions
    facilityGroupSuggestions, \* useState facilityGroupSuggestions
    timers,        \* the searches scheduled with setTimeout and not yet run
    fetches,       \* the searches suspended at `await fetch`
    chosenSpecialty \* history: the specialty the user chose last in the Select

cacheVars == <<filterCache, now, inflight, callCount, storeCount, failed, lastCall, lastDone>>
benchVars == <<store, bFilters, bStage, bReq, bResp, bRet>>

dashVars == <<dFilters, practiceName, emailDomain, facilityGroup, loading,
              providerMetrics, peerMetrics, insights, runs, invokeLog>>

insVars == <<insProvider, insPeer, insUserType, insResult>>

anVars == <<anCohort, anResult>>

searchVars == <<sStore, sReq, sResp, sExecuted>>

autofillVars == <<practiceData, selectedPractice, emailDomainSuggestions,
                  facilityGroupSuggestions, timers, fetches, chosenSpecialty>>

vars == <<cacheVars, benchVars, dashVars, insVars, anVars, searchVars, autofillVars>>

\* What each specification leaves alone
notCacheVars == <<benchVars, dashVars, insVars, anVars, searchVars, autofillVars>>
notBenchVars == <<cacheVars, dashVars, insVars, anVars, searchVars, autofillVars>>
notDashVars == <<cacheVars, benchVars, insVars, anVars, searchVars, autofillVars>>
notInsVars == <<cacheVars, benchVars, dashVars, anVars, searchVars, autofillVars>>
notAnVars == <<cacheVars, benchVars, dashVars, insVars, searchVars, autofillVars>>
notSearchVars == <<cacheVars, benchVars, dashVars, insVars, anVars, autofillVars>>
\* What the dashboard's handlers leave alone
notUiVars == <<cacheVars, benchVars, insVars, anVars, searchVars>>

----------------------------------------------------------------------------
(* JavaScript values                                                       *)

UNDEF == "<undefined>"
NULL == "<null>"
EMPTY == ""

\* JavaScript truthiness of a string-or-undefined value.
Truthy(v) == v # UNDEF /\ v # NULL /\ v # EMPTY

\* An argument object is the sequence of its own properties, in property
\* insertion order, each a pair <<name, value>>; names are unique.
\* obj.name (undefined when the property is absent)
Get(obj, name) ==
    IF \E i \in 1..Len(obj) : obj[i][1] = name
    THEN LET i == CHOOSE j \in 1..Len(obj) : obj[j][1] = name IN obj[i][2]
    ELSE UNDEF

\* (specialty, state, quarter) as the caller supplied them
Values(obj) == <<Get(obj, "specialty"), Get(obj, "state"), Get(obj, "quarter")>>

----------------------------------------------------------------------------
(* The filter-option cache                                                 *)

CACHE_DURATION == 5 * 60 * 1000

MAX_CACHE_ENTRIES == 20

\* JSON.stringify(filters || {}): properties in insertion order, a property
\* whose value is undefined is left out.  The string is represented by the
\* sequence of the <<name, value>> pairs it spells out.
RECURSIVE JsonStringify(_)
JsonStringify(obj) ==
    IF obj = <<>> THEN <<>>
    ELSE IF Head(obj)[2] = UNDEF THEN JsonStringify(Tail(obj))
         ELSE <<Head(obj)>> \o JsonStringify(Tail(obj))

CacheKey(filters) == JsonStringify(filters)

\* new URLSearchParams with specialty, state, quarter appended when truthy:
\* the query the upstream /api/filters request carries (UNDEF: not sent).
UrlParams(filters) ==
    [ specialty |-> IF Truthy(Get(filters, "specialty")) THEN Get(filters, "specialty") ELSE UNDEF,
      state     |-> IF Truthy(Get(filters, "state")) THEN Get(filters, "state") ELSE UNDEF,
      quarter   |-> IF Truthy(Get(filters, "quarter")) THEN Get(filters, "quarter") ELSE UNDEF ]

\* Map.prototype.has / get
MapHas(m, key) == \E i \in 1..Len(m) : m[i].key = key
MapGet(m, key) == m[CHOOSE i \in 1..Len(m) : m[i].key = key]

\* Map.prototype.set: a key already present keeps its place in the
\* iteration order and only its value changes; a new key goes last.
MapSet(m, e) ==
    IF MapHas(m, e.key)
    THEN [i \in 1..Len(m) |-> IF m[i].key = e.key THEN e ELSE m[i]]
    ELSE Append(m, e)

\* if (filterCache.size > 20) delete filterCache.keys().next().value
\* (the key is a non-empty JSON string, so `if (oldestKey)` always passes)
CleanUpBroken(m) == m
CleanUp(m) == IF Len(m) > MAX_CACHE_ENTRIES THEN Tail(m) ELSE m

\* cached && (now - cached.timestamp) < CACHE_DURATION
IsFreshBroken(e, t) == (t - e.timestamp) <= CACHE_DURATION
IsFresh(e, t) == (t - e.timestamp) < CACHE_DURATION

CacheHit(m, key, t) == MapHas(m, key) /\ IsFresh(MapGet(m, key), t)

\* The entry a successful fetch stores: { data, timestamp: now } where now
\* was read when the call started.  data is identified by the call that
\* fetched it and the query it was fetched with; vals, storedAt and seq are
\* history fields (the caller's values, the wall time and the rank of the
\* set call).
NewEntry(p, t, n) ==
    [ key |-> p.key,
      data |-> [fetch |-> p.id, params |-> p.params],
      timestamp |-> p.now,
      vals |-> Values(p.arg),
      storedAt |-> t,
      seq |-> n ]

\* filterCache.set(cacheKey, {data, timestamp: now}) followed by the clean up
Store(m, p, t, n) == CleanUp(MapSet(m, NewEntry(p, t, n)))

\* The entry the clean up deletes when e is set in m (none: <<>>)
Evicted(m, e) ==
    IF Len(MapSet(m, e)) > MAX_CACHE_ENTRIES THEN <<MapSet(m, e)[1]>> ELSE <<>>

\* The fallback bundle of the catch block
EmptyBundle == [fetch |-> 0, params |-> [specialty |-> UNDEF, state |-> UNDEF, quarter |-> UNDEF]]

----------------------------------------------------------------------------
(* Bounds and inputs of the cache specification                            *)

MaxCalls == 2
MaxInFlight == 2
MaxNow == 600000

\* Clock advances between two events: one millisecond short of the TTL, or
\* the TTL.
Delays == {CACHE_DURATION - 1, CACHE_DURATION}

\* The arguments getFilterOptions is called with.
FillerQuarters ==
    << "2019-Q1", "2019-Q2", "2019-Q3", "2019-Q4", "2020-Q1", "2020-Q2", "2020-Q3", "2020-Q4",
       "2021-Q1", "2021-Q2", "2021-Q3", "2021-Q4", "2022-Q1", "2022-Q2", "2022-Q3", "2022-Q4",
       "2023-Q1", "2023-Q2", "2023-Q3", "2023-Q4" >>
FillerArg(i) == << <<"quarter", FillerQuarters[i]>> >>
Args ==
    { << <<"quarter", "2024-Q4">> >>,
      << <<"specialty", UNDEF>>, <<"state", UNDEF>>, <<"quarter", "2024-Q4">> >>,
      << <<"specialty", "Radiology">>, <<"state", "NY">>, <<"quarter", "2024-Q4">> >>,
      \* the same values, the properties in another order
      << <<"state", "NY">>, <<"specialty", "Radiology">>, <<"quarter", "2024-Q4">> >>,
      FillerArg(1) }

FailureKinds == {"rejected", "http_status", "body_error"}

\* The cache after n successful calls for n distinct keys, all started in
\* millisecond 0 and completed in call order.
RECURSIVE Prefilled(_)
Prefilled(n) ==
    IF n = 0 THEN <<>>
    ELSE Store(Prefilled(n - 1),
               [id |-> n, arg |-> FillerArg(n), key |-> CacheKey(FillerArg(n)),
                now |-> 0, params |-> UrlParams(FillerArg(n))],
               0, n)

PrefillSizes == {0, MAX_CACHE_ENTRIES - 1, MAX_CACHE_ENTRIES}

\* The values of the history variables before anything happened
NoEntry == [key |-> <<>>, data |-> EmptyBundle, timestamp |-> 0, vals |-> <<UNDEF, UNDEF, UNDEF>>,
            storedAt |-> 0, seq |-> 0]
NoCall == [kind |-> "none", arg |-> <<>>, key |-> <<>>, at |-> 0, hadEntry |-> FALSE,
           entry |-> NoEntry, shared |-> FALSE]
NoDone == [kind |-> "none", key |-> <<>>, evicted |-> <<>>]

----------------------------------------------------------------------------
(* The record store                                                        *)

\* Case folding and substring test of the texts the model uses (ILIKE).
LowerCase(t) ==
    CASE t = "General" -> "general"
      [] t = "GENERAL" -> "general"
      [] t = "General Hospital" -> "general hospital"
      [] t = "Mercy Group" -> "mercy group"
      [] t = "Mercy" -> "mercy"
      [] t = "Me" -> "me"
      [] t = "MERCY GROUP" -> "mercy group"
      [] t = "LawFirm.com" -> "lawfirm.com"
      [] OTHER -> t

ProperSubstrings ==
    { <<"general hospital", "general">>, <<"mercy group", "mercy">>,
      <<"mercy group", "me">>, <<"mercy", "me">> }

\* hay ILIKE '%' || needle || '%'
ILikeContains(hay, needle) ==
    \/ needle = EMPTY
    \/ LowerCase(hay) = LowerCase(needle)
    \/ <<LowerCase(hay), LowerCase(needle)>> \in ProperSubstrings

Dispute(q, sp, st, sz, name, grp, dom, won) ==
    [ data_quarter |-> q, practice_facility_specialty |-> sp, location_of_service |-> st,
      practice_facility_size |-> sz, provider_facility_name |-> name,
      provider_facility_group_name |-> grp, provider_email_domain |-> dom,
      favor_provider |-> won ]

Universe ==
    { Dispute("2024-Q4", "Cardiology", "NY", "20-50 Employees", "General",
              "Mercy Group", "lawfirm.com", TRUE),
      Dispute("2024-Q4", "Cardiology", "CA", "Over 500 Employees", "General Hospital",
              "Mercy Group", "lawfirm.com", FALSE),
      Dispute("2024-Q3", "Cardiology", "NY", "20-50 Employees", "General",
              "Mercy Group", "lawfirm.com", TRUE),
      Dispute("2024-Q3", "Cardiology", "CA", "20-50 Employees", "GENERAL",
              NULL, "other.org", FALSE),
      Dispute("2024-Q4", "Radiology", "NY", "20-50 Employees", "General",
              NULL, "lawfirm.com", TRUE),
      Dispute("2024-Q4", NULL, "NY", NULL, "Mercy", NULL, NULL, FALSE) }

Stores == { Universe, {d \in Universe : d.data_quarter = "2024-Q4"}, {} }

\* SQL: column = parameter is true only when neither side is NULL.
SqlEq(col, param) == col # NULL /\ param # NULL /\ col = param

\* The WHERE clause of get_provider_benchmark (p_service_codes is never
\* passed and defaults to NULL).
ProviderBenchmarkWhere(d, p) ==
    /\ SqlEq(d.data_quarter, p.p_quarter)
    /\ (p.p_specialty = NULL \/ SqlEq(d.practice_facility_specialty, p.p_specialty))
    /\ (p.p_state = NULL \/ SqlEq(d.location_of_service, p.p_state))
    /\ (p.p_practice_size = NULL \/ SqlEq(d.practice_facility_size, p.p_practice_size))
    /\ (p.p_practice_name = NULL
        \/ (d.provider_facility_name # NULL
            /\ ILikeContains(d.provider_facility_name, p.p_practice_name)))

\* ROUND(wins * 100.0 / total, 2), in hundredths of a percent
RoundedRate(wins, total) == (2 * wins * 10000 + total) \div (2 * total)

Wins(rows) == Cardinality({d \in rows : d.favor_provider})

\* get_provider_benchmark: one aggregate row; with no matching row COUNT(*)
\* is 0 and the division raises division_by_zero.
GetProviderBenchmarkSql(rows) ==
    IF Cardinality(rows) = 0
    THEN [error |-> "division_by_zero", data |-> <<>>]
    ELSE [error |-> NULL,
          data |-> << [ total_disputes |-> Cardinality(rows),
                        provider_win_rate |-> RoundedRate(Wins(rows), Cardinality(rows)) ] >>]

\* get_law_firm_benchmark / get_provider_group_benchmark: the quarter when
\* given, the identifying value (email domain: exact; facility group:
\* case-insensitive substring) when given, and the optional specialty and
\* state; a cohort without rows is reported with zeros.
LawFirmBenchmarkWhere(d, p) ==
    /\ (p.p_quarter = NULL \/ SqlEq(d.data_quarter, p.p_quarter))
    /\ (p.p_email_domain = NULL \/ SqlEq(d.provider_email_domain, p.p_email_domain))
    /\ (p.p_specialty = NULL \/ SqlEq(d.practice_facility_specialty, p.p_specialty))
    /\ (p.p_state = NULL \/ SqlEq(d.location_of_service, p.p_state))

ProviderGroupBenchmarkWhere(d, p) ==
    /\ (p.p_quarter = NULL \/ SqlEq(d.data_quarter, p.p_quarter))
    /\ (p.p_facility_group = NULL
        \/ (d.provider_facility_group_name # NULL
            /\ ILikeContains(d.provider_facility_group_name, p.p_facility_group)))
    /\ (p.p_specialty = NULL \/ SqlEq(d.practice_facility_specialty, p.p_specialty))
    /\ (p.p_state = NULL \/ SqlEq(d.location_of_service, p.p_state))

GroupedBenchmarkSql(rows) ==
    [error |-> NULL,
     data |-> << [ total_disputes |-> Cardinality(rows),
                   provider_win_rate |-> IF Cardinality(rows) = 0 THEN 0
                                         ELSE RoundedRate(Wins(rows), Cardinality(rows)) ] >>]

----------------------------------------------------------------------------
(* POST /api/benchmark                                                     *)

OrNull(v) == IF Truthy(v) THEN v ELSE NULL

NoParams ==
    [ p_specialty |-> NULL, p_state |-> NULL, p_practice_size |-> NULL, p_quarter |-> NULL,
      p_practice_name |-> NULL, p_email_domain |-> NULL, p_facility_group |-> NULL ]

\* The stored procedure and its parameters (the switch on filters.user_type)
ProcedureCall(req) ==
    LET filters == req.body.filters
        type == req.body.type
    IN
    CASE filters.user_type = "law_firm" ->
           [ name |-> "get_law_firm_benchmark",
             params |-> [NoParams EXCEPT
                            !.p_email_domain = OrNull(req.url.email_domain),
                            !.p_specialty = OrNull(filters.specialty),
                            !.p_state = OrNull(filters.state),
                            !.p_quarter = OrNull(filters.quarter)] ]
      [] filters.user_type = "provider_group" ->
           [ name |-> "get_provider_group_benchmark",
             params |-> [NoParams EXCEPT
                            !.p_facility_group = OrNull(req.url.facility_group),
                            !.p_specialty = OrNull(filters.specialty),
                            !.p_state = OrNull(filters.state),
                            !.p_quarter = OrNull(filters.quarter)] ]
      [] OTHER ->
           [ name |-> "get_provider_benchmark",
             params |-> [NoParams EXCEPT
                            !.p_specialty = OrNull(filters.specialty),
                            !.p_state = IF type = "provider" THEN OrNull(filters.state) ELSE NULL,
                            !.p_practice_size = IF type = "provider"
                                                THEN OrNull(filters.practice_size) ELSE NULL,
                            !.p_quarter = OrNull(filters.quarter),
                            !.p_practice_name = IF type = "provider"
                                                THEN OrNull(req.url.practice_name) ELSE NULL] ]

\* The rows the procedure's WHERE clause selects
Selected(rows, call) ==
    CASE call.name = "get_law_firm_benchmark" ->
           {d \in rows : LawFirmBenchmarkWhere(d, call.params)}
      [] call.name = "get_provider_group_benchmark" ->
           {d \in rows : ProviderGroupBenchmarkWhere(d, call.params)}
      [] OTHER -> {d \in rows : ProviderBenchmarkWhere(d, call.params)}

\* supabaseAdmin.rpc(procedureName, params): { data, error }
Rpc(rows, call, storeFails) ==
    IF storeFails THEN [error |-> "store_unavailable", data |-> <<>>]
    ELSE IF call.name = "get_provider_benchmark"
         THEN GetProviderBenchmarkSql(Selected(rows, call))
         ELSE GroupedBenchmarkSql(Selected(rows, call))

\* The response: 500 on a query error, 404 without a row, else the row.
BenchmarkResponse(result) ==
    IF result.error # NULL THEN [status |-> 500, data |-> NULL, error |-> "Database query failed"]
    ELSE IF Len(result.data) = 0
         THEN [status |-> 404, data |-> NULL,
               error |-> "No data found matching the specified criteria"]
         ELSE [status |-> 200, data |-> result.data[1], error |-> NULL]

\* hasSpecificFilter: the analytics run only with the identifier of the
\* request's user type.
HasSpecificFilter(req) ==
    LET f == req.body.filters IN
    \/ f.user_type = "law_firm" /\ Truthy(req.url.email_domain)
    \/ f.user_type = "provider_group" /\ Truthy(req.url.facility_group)
    \/ f.user_type = "individual_provider" /\ Truthy(req.url.practice_name)

\* The filters applied to the three analytics queries
AnalyticsWhere(d, req) ==
    LET f == req.body.filters IN
    /\ Truthy(f.quarter) => SqlEq(d.data_quarter, f.quarter)
    /\ CASE f.user_type = "law_firm" -> SqlEq(d.provider_email_domain, req.url.email_domain)
         [] f.user_type = "provider_group" ->
              /\ d.provider_facility_group_name # NULL
              /\ ILikeContains(d.provider_facility_group_name, req.url.facility_group)
         [] OTHER -> SqlEq(d.provider_facility_name, req.url.practice_name)
    /\ Truthy(f.specialty) => SqlEq(d.practice_facility_specialty, f.specialty)
    /\ Truthy(f.state) => SqlEq(d.location_of_service, f.state)
    /\ (Truthy(f.practice_size) /\ f.user_type # "law_firm")
          => SqlEq(d.practice_facility_size, f.practice_size)

\* The disputes the analytics of a response cover: none for an error
\* response, a message without the identifier, else the filtered rows.
NoAnalytics == [kind |-> "none", rows |-> {}]
Analytics(rows, req, status) ==
    IF status # 200 THEN NoAnalytics
    ELSE IF ~HasSpecificFilter(req) THEN [kind |-> "message", rows |-> {}]
    ELSE [kind |-> "rows", rows |-> {d \in rows : AnalyticsWhere(d, req)}]

----------------------------------------------------------------------------
(* BenchmarkingService.getProviderBenchmark / getPeerBenchmark             *)

NoFilters ==
    [ user_type |-> UNDEF, specialty |-> UNDEF, state |-> UNDEF, practice_size |-> UNDEF,
      quarter |-> UNDEF, practice_name |-> UNDEF, email_domain |-> UNDEF,
      facility_group |-> UNDEF ]

\* The query string of getProviderBenchmark's URL
ProviderUrl(filters) ==
    [ email_domain |-> IF filters.user_type = "law_firm" /\ Truthy(filters.email_domain)
                       THEN filters.email_domain ELSE UNDEF,
      facility_group |-> IF filters.user_type = "provider_group" /\ Truthy(filters.facility_group)
                         THEN filters.facility_group ELSE UNDEF,
      practice_name |-> IF filters.user_type = "individual_provider" /\ Truthy(filters.practice_name)
                        THEN filters.practice_name ELSE UNDEF ]

NoUrl == [email_domain |-> UNDEF, facility_group |-> UNDEF, practice_name |-> UNDEF]

ProviderRequest(filters) ==
    [url |-> ProviderUrl(filters), body |-> [filters |-> filters, type |-> "provider"]]

\* peerFilters = { specialty: filters.specialty, quarter: filters.quarter || '2024-Q4' }
PeerFiltersFixedQuarter(filters) ==
    [NoFilters EXCEPT !.specialty = filters.specialty, !.quarter = "2024-Q4"]
PeerFilters(filters) ==
    [NoFilters EXCEPT !.specialty = filters.specialty,
                      !.quarter = IF Truthy(filters.quarter) THEN filters.quarter ELSE "2024-Q4"]

PeerRequest(filters) ==
    [url |-> NoUrl, body |-> [filters |-> PeerFilters(filters), type |-> "peer"]]

\* What the service call returns for a response: result.data, or null when
\* the response is not OK.
JsNull == [kind |-> "null", total_disputes |-> 0, provider_win_rate |-> 0]
Metrics(row) == [kind |-> "metrics", total_disputes |-> row.total_disputes,
                 provider_win_rate |-> row.provider_win_rate]
ServiceReturn(resp) == IF resp.status = 200 THEN Metrics(resp.data) ELSE JsNull

----------------------------------------------------------------------------
(* One comparison: both service calls on the same filters                  *)

Calls == {"mine", "peer"}

UserTypes == {"individual_provider", "provider_group", "law_firm"}

\* The filters a caller passes: the identifying value of the user type is
\* set or not, the other two are absent.
FilterInputs ==
    { [NoFilters EXCEPT
          !.user_type = u, !.specialty = sp, !.state = st, !.practice_size = sz,
          !.quarter = q,
          !.practice_name = IF u = "individual_provider" THEN id[1] ELSE UNDEF,
          !.facility_group = IF u = "provider_group" THEN id[2] ELSE UNDEF,
          !.email_domain = IF u = "law_firm" THEN id[3] ELSE UNDEF] :
        u \in UserTypes,
        sp \in {UNDEF, "Cardiology"},
        st \in {UNDEF, "NY"},
        sz \in {UNDEF, "20-50 Employees"},
        q \in {UNDEF, "2024-Q4", "2024-Q3"},
        id \in {<<UNDEF, UNDEF, UNDEF>>, <<"General", "mercy", "lawfirm.com">>} }

NoRequest == [url |-> NoUrl, body |-> [filters |-> NoFilters, type |-> "none"]]
NoResponse ==
    [ status |-> 0, data |-> NULL, error |-> NULL, storeFailed |-> FALSE,
      call |-> [name |-> "none", params |-> NoParams], selected |-> {},
      analytics |-> [kind |-> "none", rows |-> {}] ]
NotReturned == [kind |-> "pending", total_disputes |-> 0, provider_win_rate |-> 0]

----------------------------------------------------------------------------
(* The dashboard: runBenchmarkAnalysis                                     *)

\* String.prototype.trim on the texts the model types into the inputs
Trim(t) ==
    CASE t = "  " -> EMPTY
      [] t = " lawfirm.com " -> "lawfirm.com"
      [] OTHER -> t

\* filters.user_type === 'individual_provider' && !filters.specialty
SpecialtyMissingAnyType(f) == ~Truthy(f.specialty)
SpecialtyMissing(f) == f.user_type = "individual_provider" /\ ~Truthy(f.specialty)

\* filters.user_type === 'law_firm' && !emailDomain.trim()
EmailDomainMissing(f, ed) == f.user_type = "law_firm" /\ ~Truthy(Trim(ed))

\* filters.user_type === 'provider_group' && !facilityGroup.trim()
FacilityGroupMissing(f, fg) == f.user_type = "provider_group" /\ ~Truthy(Trim(fg))

\* The alert of the validation block, "none" when it lets the call through
ValidationAlert(f, ed, fg) ==
    IF SpecialtyMissing(f) THEN "Please select a specialty to run the analysis"
    ELSE IF EmailDomainMissing(f, ed)
         THEN "Please enter your law firm email domain to run the analysis"
    ELSE IF FacilityGroupMissing(f, fg)
         THEN "Please enter your provider group name to run the analysis"
    ELSE "none"

\* The same expression without `loading`
RunButtonDisabledWhenInvalid ==
    \/ SpecialtyMissing(dFilters)
    \/ EmailDomainMissing(dFilters, emailDomain)
    \/ FacilityGroupMissing(dFilters, facilityGroup)

\* The disabled expression of the Run Analysis button
RunButtonDisabled ==
    \/ loading
    \/ SpecialtyMissing(dFilters)
    \/ EmailDomainMissing(dFilters, emailDomain)
    \/ FacilityGroupMissing(dFilters, facilityGroup)

OrUndefined(v) == IF Truthy(v) THEN v ELSE UNDEF

\* providerFilters = { ...filters, practice_name: ..., email_domain: ..., facility_group: ... }
ProviderFilters(f, pn, ed, fg) ==
    [f EXCEPT
        !.practice_name = IF f.user_type = "individual_provider"
                          THEN OrUndefined(Trim(pn)) ELSE UNDEF,
        !.email_domain = IF f.user_type = "law_firm" THEN OrUndefined(Trim(ed)) ELSE UNDEF,
        !.facility_group = IF f.user_type = "provider_group"
                           THEN OrUndefined(Trim(fg)) ELSE UNDEF]

\* The insights shown for a pair of results: which results and user type
\* generateInsights was given.
GeneratedInsights(providerData, peerData, userType) ==
    << [provider |-> providerData, peer |-> peerData,
        user_type |-> IF Truthy(userType) THEN userType ELSE "individual_provider"] >>

InitialFilters == [NoFilters EXCEPT !.quarter = "2024-Q4", !.user_type = "individual_provider"]

----------------------------------------------------------------------------
(* BenchmarkingService.generateInsights                                    *)

\* A metric that may be null or undefined is <<>> when it is, <<n>> when it
\* is the number n.  Percentages are in hundredths (two decimals, as the
\* procedures round them).
NoNumber == <<>>
Num(n) == <<n>>

\* if (x): null, undefined and 0 are falsy
TruthyNumber(v) == v # NoNumber /\ v[1] # 0

\* The metrics are IEEE-754 doubles.  For a percentage of h hundredths,
\* DoubleError(h) is (double(h / 100) - h / 100) in units of 1 / (100 * 2^52).
DoubleError(h) ==
    CASE h = 304 -> 16
      [] h = 305 -> -80
      [] h = 804 -> -384
      [] h = 805 -> 320
      [] h = 1202 -> -192
      [] h = 3202 -> 1408
      [] OTHER -> 0    \* 0, 500, 5000, 5600, 10000, 12500 are exact

\* Half the spacing of the doubles around t / 100, in the same units
HalfUlp(t) == IF t = 500 THEN 200 ELSE 800

\* a - b > t / 100 in double arithmetic (t is 500 or 2000): decided by the
\* decimals unless they differ by exactly t, when the rounded difference of
\* the two doubles decides (a tie rounds to t / 100 itself).
MinusExceeds(a, b, t) ==
    IF a - b # t THEN a - b > t
    ELSE DoubleError(a) - DoubleError(b) > HalfUlp(t)

\* a - b < -t / 100 in double arithmetic
MinusBelow(a, b, t) == MinusExceeds(b, a, t)

Insight(type, title) == [type |-> type, title |-> title]

\* The win-rate block
WinRateInsights(p, q, userType) ==
    LET up == MinusExceeds(p.provider_win_rate, q.provider_win_rate, 500)
        down == MinusBelow(p.provider_win_rate, q.provider_win_rate, 500)
    IN
    IF userType = "law_firm"
    THEN IF up THEN << Insight("success", "Superior Client Representation") >>
         ELSE IF down THEN << Insight("warning", "Win Rate Below Peer Law Firms") >>
         ELSE << Insight("info", "Competitive Law Firm Performance") >>
    ELSE IF userType = "provider_group"
    THEN IF up THEN << Insight("success", "Outstanding Network Performance") >>
         ELSE IF down THEN << Insight("warning", "Network Performance Opportunity") >>
         ELSE << Insight("info", "Solid Network Performance") >>
    ELSE IF up THEN << Insight("success", "Excellent Win Rate Performance") >>
         ELSE IF down THEN << Insight("warning", "Win Rate Below Peers") >>
         ELSE << Insight("info", "Win Rate In Line with Peers") >>

\* The offer-amount block
OfferInsights(p, q) ==
    IF TruthyNumber(p.avg_provider_offer_pct) /\ TruthyNumber(q.avg_provider_offer_pct)
    THEN IF MinusExceeds(p.avg_provider_offer_pct[1], q.avg_provider_offer_pct[1], 2000)
         THEN << Insight("warning", "High Offer Strategy") >>
         ELSE IF MinusBelow(p.avg_provider_offer_pct[1], q.avg_provider_offer_pct[1], 2000)
         THEN << Insight("info", "Conservative Offer Strategy") >>
         ELSE <<>>
    ELSE <<>>

\* The volume block
VolumeInsights(p, userType) ==
    IF userType = "law_firm"
    THEN (IF p.total_disputes < 100
          THEN << Insight("info", "Growing IDR Practice") >>
          ELSE << Insight("success", "Established IDR Practice") >>)
         \o (IF TruthyNumber(p.specialties_represented) /\ p.specialties_represented[1] >= 5
             THEN << Insight("success", "Multi-Specialty Expertise") >>
             ELSE <<>>)
    ELSE IF userType = "provider_group"
    THEN (IF TruthyNumber(p.total_facilities) /\ p.total_facilities[1] > 1
          THEN << Insight("info", "Multi-Facility Network Analysis") >>
          ELSE <<>>)
         \o (IF TruthyNumber(p.specialties_represented) /\ p.specialties_represented[1] > 3
             THEN << Insight("success", "Diverse Service Line Portfolio") >>
             ELSE <<>>)
    ELSE IF p.total_disputes < 50
         THEN << Insight("info", "Limited Sample Size") >>
         ELSE <<>>

GenerateInsights(provider, peer, userType) ==
    WinRateInsights(provider, peer, userType)
    \o OfferInsights(provider, peer)
    \o VolumeInsights(provider, userType)

\* The insights by the block that emits them
WinRateTitles ==
    { "Superior Client Representation", "Win Rate Below Peer Law Firms",
      "Competitive Law Firm Performance", "Outstanding Network Performance",
      "Network Performance Opportunity", "Solid Network Performance",
      "Excellent Win Rate Performance", "Win Rate Below Peers", "Win Rate In Line with Peers" }
OfferTitles == { "High Offer Strategy", "Conservative Offer Strategy" }
VolumeTitles ==
    { "Growing IDR Practice", "Established IDR Practice", "Multi-Facility Network Analysis",
      "Diverse Service Line Portfolio", "Limited Sample Size" }

----------------------------------------------------------------------------
(* Inputs of the generateInsights specification                            *)

WinRates == {0, 304, 305, 500, 804, 805, 5000, 5600}
OfferPcts == {NoNumber, Num(0), Num(1202), Num(3202), Num(10000), Num(12500)}

\* total_disputes and, for groups and firms, the breadth columns
VolumeShapes ==
    { [total_disputes |-> 0, total_facilities |-> NoNumber, total_practices |-> NoNumber,
       specialties_represented |-> NoNumber],
      [total_disputes |-> 49, total_facilities |-> Num(1), total_practices |-> Num(1),
       specialties_represented |-> Num(3)],
      [total_disputes |-> 50, total_facilities |-> Num(2), total_practices |-> Num(2),
       specialties_represented |-> Num(4)],
      [total_disputes |-> 99, total_facilities |-> Num(1), total_practices |-> Num(1),
       specialties_represented |-> Num(5)],
      [total_disputes |-> 100, total_facilities |-> Num(0), total_practices |-> Num(0),
       specialties_represented |-> Num(0)],
      [total_disputes |-> 100, total_facilities |-> Num(3), total_practices |-> Num(7),
       specialties_represented |-> Num(6)] }

InsightMetrics(w, o, v) ==
    [ provider_win_rate |-> w, avg_provider_offer_pct |-> o,
      total_disputes |-> v.total_disputes, total_facilities |-> v.total_facilities,
      total_practices |-> v.total_practices,
      specialties_represented |-> v.specialties_represented ]

ProviderMetricsInputs ==
    { InsightMetrics(w, o, v) : w \in WinRates, o \in OfferPcts, v \in VolumeShapes }

PeerMetricsInputs ==
    { InsightMetrics(w, o, v) : w \in WinRates, o \in OfferPcts,
                                v \in {x \in VolumeShapes : x.total_disputes \in {0, 100}
                                                            /\ x.total_facilities # Num(3)} }

NotCalled == << Insight("none", "not called") >>

----------------------------------------------------------------------------
(* POST /api/benchmark: service-code analytics                             *)

\* A cohort is a sequence of runs of equal disputes, in the order the store
\* returns them: n disputes with this code, type tag and outcome.
Run(code, type, won, n) ==
    [service_code |-> code, type_of_service_code |-> type, won |-> won, n |-> n]

QUERY_LIMIT == 50000
DISPLAY_CAP == 100

RECURSIVE Rows(_)
\* The number of disputes in a sequence of runs
Rows(rs) ==
    IF rs = <<>> THEN 0
    ELSE IF Len(rs) = 1 THEN rs[1].n
    ELSE Rows(SubSeq(rs, 1, Len(rs) \div 2)) + Rows(SubSeq(rs, Len(rs) \div 2 + 1, Len(rs)))

\* .limit(k): the first k rows
Limit(rs, k) ==
    LET before(i) == Rows(SubSeq(rs, 1, i - 1))
        kept == SelectSeq([i \in 1..Len(rs) |-> [run |-> rs[i], before |-> before(i)]],
                          LAMBDA x : x.before < k)
    IN [i \in 1..Len(kept) |->
          IF kept[i].before + kept[i].run.n <= k THEN kept[i].run
          ELSE [kept[i].run EXCEPT !.n = k - kept[i].before]]

HasCode(r) == r.service_code # NULL

\* serviceCodeQuery: .not('service_code', 'is', null).limit(50000)
ServiceCodeQuery(cohort) == Limit(SelectSeq(cohort, HasCode), QUERY_LIMIT)

LacksCode(r) == r.service_code = NULL

\* missingServiceCodeQuery: count 'exact' of the rows without a code
MissingServiceCodeQuery(cohort) == Rows(SelectSeq(cohort, LacksCode))

\* row.type_of_service_code || 'Unknown'
CodeType(r) == IF Truthy(r.type_of_service_code) THEN r.type_of_service_code ELSE "Unknown"

\* `${code}|${codeType}`
CompoundKey(r) == r.service_code \o "|" \o CodeType(r)

NumWon(r) == IF r.won THEN r.n ELSE 0

RECURSIVE Won(_)
\* The number of disputes won in a sequence of runs
Won(rs) ==
    IF rs = <<>> THEN 0
    ELSE IF Len(rs) = 1 THEN NumWon(rs[1])
    ELSE Won(SubSeq(rs, 1, Len(rs) \div 2)) + Won(SubSeq(rs, Len(rs) \div 2 + 1, Len(rs)))

\* The forEach over the rows: the entries of serviceCodeMap in insertion
\* order, one per key, each counting the rows with its key.
ServiceCodeMap(rs) ==
    LET first == SelectSeq([i \in 1..Len(rs) |-> i],
                           LAMBDA i : \A j \in 1..(i - 1) : CompoundKey(rs[j]) # CompoundKey(rs[i]))
        same(i) == SelectSeq(rs, LAMBDA r : CompoundKey(r) = CompoundKey(rs[i]))
    IN [k \in 1..Len(first) |->
          [ key |-> CompoundKey(rs[first[k]]),
            service_code |-> rs[first[k]].service_code,
            type_of_service_code |-> CodeType(rs[first[k]]),
            total_disputes |-> Rows(same(first[k])),
            wins |-> Won(same(first[k])),
            losses |-> Rows(same(first[k])) - Won(same(first[k])) ]]

\* .sort((a, b) => b.total_disputes - a.total_disputes): the sort is stable,
\* so entry i comes after the entries with more disputes and the earlier
\* entries with as many.
SortByVolume(entries) ==
    LET ahead(i) == {j \in 1..Len(entries) :
                        \/ entries[j].total_disputes > entries[i].total_disputes
                        \/ entries[j].total_disputes = entries[i].total_disputes /\ j < i}
    IN [k \in 1..Len(entries) |->
          entries[CHOOSE i \in 1..Len(entries) : Cardinality(ahead(i)) = k - 1]]

\* .slice(0, 100)
Slice(entries) == SubSeq(entries, 1, IF Len(entries) < DISPLAY_CAP THEN Len(entries) ELSE DISPLAY_CAP)

Types(rs) == {CodeType(rs[i]) : i \in 1..Len(rs)}

OfType(rs, t) == SelectSeq(rs, LAMBDA r : CodeType(r) = t)

\* finalTypeStats: per type tag the distinct codes, the cases and the wins
TypeStats(rs) ==
    [t \in Types(rs) |->
        [ count |-> Cardinality({OfType(rs, t)[i].service_code : i \in 1..Len(OfType(rs, t))}),
          cases |-> Rows(OfType(rs, t)),
          wins |-> Won(OfType(rs, t)) ]]

\* .map(entry => ({...})): the counts of a row of service_code_analysis
AnalysisRows(entries) ==
    [i \in 1..Len(entries) |->
        [ service_code |-> entries[i].service_code,
          type_of_service_code |-> entries[i].type_of_service_code,
          total_disputes |-> entries[i].total_disputes,
          wins |-> entries[i].wins,
          losses |-> entries[i].losses ]]

\* analyticsData after the service-code block.  A failed service-code query
\* skips the block; a failed count query counts as 0 missing.
NoServiceCodes == [kind |-> "absent"]
ServiceCodeAnalytics(cohort, serviceFails, missingFails) ==
    IF serviceFails THEN NoServiceCodes
    ELSE LET data == ServiceCodeQuery(cohort)
             all == ServiceCodeMap(data)
             missing == IF missingFails THEN 0 ELSE MissingServiceCodeQuery(cohort)
         IN [ kind |-> "present",
              service_code_analysis |-> Slice(SortByVolume(AnalysisRows(all))),
              total_cases_with_service_codes |-> Rows(data),
              total_wins_with_service_codes |-> Won(data),
              cases_missing_service_codes |-> missing,
              total_service_codes |-> Len(all),
              displayed_service_codes |-> Len(all),
              total_cases_in_analytics |-> Rows(data) + missing,
              service_code_types |-> TypeStats(data) ]

----------------------------------------------------------------------------
(* Inputs of the analytics specification                                   *)

MaxCohortRuns == 3

CohortRuns ==
    { Run("99285", "CPT", TRUE, 1), Run("99285", "HCPCS", FALSE, 1),
      Run("99285", NULL, TRUE, 1), Run("99285", "Unknown", FALSE, 1),
      Run("A0427", "HCPCS", TRUE, 2), Run("A0427", "HCPCS", FALSE, 1),
      Run(NULL, NULL, FALSE, 1), Run("A|B", "C", TRUE, 1), Run("A", "B|C", FALSE, 1) }

RECURSIVE SeqsUpTo(_, _)
SeqsUpTo(S, n) ==
    IF n = 0 THEN {<<>>}
    ELSE SeqsUpTo(S, n - 1) \cup {Append(q, x) : q \in SeqsUpTo(S, n - 1), x \in S}

\* More codes than the list shows; the last one has the most disputes
ManyCodes ==
    [i \in 1..(DISPLAY_CAP + 1) |->
        Run(ToString(i), "CPT", i % 2 = 0, IF i = DISPLAY_CAP + 1 THEN 3 ELSE 1 + (i % 2))]

\* More disputes with a code than one query returns
LargeCohort == << Run("99285", "CPT", TRUE, QUERY_LIMIT), Run("A0427", "HCPCS", FALSE, 1) >>

Cohorts ==
    SeqsUpTo(CohortRuns, MaxCohortRuns)
    \cup { ManyCodes, LargeCohort, ManyCodes \o << Run(NULL, NULL, FALSE, 2) >> }

NotComputed == [kind |-> "pending"]

----------------------------------------------------------------------------
(* Bounds and inputs of the dashboard specification                        *)

MaxInvocations == 2

EmailDomainTexts == {EMPTY, "  ", " lawfirm.com "}
FacilityGroupTexts == {EMPTY, "mercy"}
Specialties == {"Cardiology"}

\* What a service call can return to the dashboard
Outcomes ==
    { JsNull,
      Metrics([total_disputes |-> 0, provider_win_rate |-> 0]),
      Metrics([total_disputes |-> 4, provider_win_rate |-> 5000]) }

----------------------------------------------------------------------------
(* The variables of the specifications that are not running                *)

BenchParked ==
    /\ store = {}
    /\ bFilters = NoFilters
    /\ bStage = [c \in Calls |-> "parked"]
    /\ bReq = [c \in Calls |-> NoRequest]
    /\ bResp = [c \in Calls |-> NoResponse]
    /\ bRet = [c \in Calls |-> NotReturned]

CacheParked ==
    /\ filterCache = <<>>
    /\ now = 0
    /\ inflight = {}
    /\ callCount = 0
    /\ storeCount = 0
    /\ failed = {}
    /\ lastCall = NoCall
    /\ lastDone = NoDone

DashParked ==
    /\ dFilters = NoFilters
    /\ practiceName = EMPTY
    /\ emailDomain = EMPTY
    /\ facilityGroup = EMPTY
    /\ loading = FALSE
    /\ providerMetrics = JsNull
    /\ peerMetrics = JsNull
    /\ insights = <<>>
    /\ runs = {}
    /\ invokeLog = <<>>

InsParked ==
    /\ insProvider = InsightMetrics(0, NoNumber, CHOOSE v \in VolumeShapes : v.total_disputes = 0)
    /\ insPeer = InsightMetrics(0, NoNumber, CHOOSE v \in VolumeShapes : v.total_disputes = 0)
    /\ insUserType = "individual_provider"
    /\ insResult = NotCalled

----------------------------------------------------------------------------
(* The search endpoints: GET /api/practice-search, /api/email-domain-search *)
(* and /api/facility-group-search.  The limit parameter is left at its      *)
(* default, which no result of the modelled store exceeds; a candidate is   *)
(* its name and its dispute count, and the list is kept as a set.           *)

\* A response body's list: absent, or the candidates in order
NoList == <<>>
List(S) == << S >>

\* if (!query || query.length < 2)
TooShortAnyLength(query) == ~Truthy(query)
TooShort(query) == ~Truthy(query) \/ Len(query) < 2

\* parseInt(searchParams.get('limit') || '20')
DEFAULT_LIMIT == 20
ParseLimit(limit) ==
    CASE limit = "1" -> 1
      [] limit = "2" -> 2
      [] OTHER -> DEFAULT_LIMIT

\* The rows the practice search asks for: .limit(limit * 3)
PRACTICE_FETCH_FACTOR == 3
\* The rows the email-domain fallback asks for: .limit(1000)
DOMAIN_QUERY_LIMIT == 1000
\* The rows the facility-group search asks for: .limit(2000)
GROUP_QUERY_LIMIT == 2000

\* NextResponse.json({ <list>: [], message: 'Query too short. ...' })
QueryTooShort ==
    [ status |-> 200, candidates |-> List(<<>>),
      message |-> "Query too short. Please enter at least 2 characters.",
      error |-> UNDEF ]

\* NextResponse.json({ error }, { status: 500 })
SearchError(text) ==
    [ status |-> 500, candidates |-> NoList, message |-> UNDEF, error |-> text ]

\* NextResponse.json({ <list>, total, query })
SearchResult(S) ==
    [ status |-> 200, candidates |-> List(S), message |-> UNDEF, error |-> UNDEF ]

RECURSIVE Arrangements(_, _)
\* The sequences of k distinct elements of S
Arrangements(S, k) ==
    IF k = 0 THEN {<<>>}
    ELSE UNION { { <<x>> \o q : q \in Arrangements(S \ {x}, k - 1) } : x \in S }

\* What a query without ORDER BY returns under .limit(k): any k of the
\* matching rows, in any order (all of them when there are fewer)
Fetch(S, k) == Arrangements(S, IF Cardinality(S) < k THEN Cardinality(S) ELSE k)

\* Map insertion order: the indexes of the rows that bring a new key
Firsts(rows, Key(_)) ==
    SelectSeq([i \in 1..Len(rows) |-> i],
              LAMBDA i : \A j \in 1..(i - 1) : Key(rows[j]) # Key(rows[i]))

\* .sort((a, b) => b.disputeCount - a.disputeCount), a stable sort
SortByCount(entries) ==
    LET ahead(i) == {j \in 1..Len(entries) :
                        \/ entries[j].disputeCount > entries[i].disputeCount
                        \/ entries[j].disputeCount = entries[i].disputeCount /\ j < i}
    IN [k \in 1..Len(entries) |->
          entries[CHOOSE i \in 1..Len(entries) : Cardinality(ahead(i)) = k - 1]]

\* .slice(0, limit)
SliceTo(entries, limit) ==
    SubSeq(entries, 1, IF Len(entries) < limit THEN Len(entries) ELSE limit)

\* The rows the practice search matches:
\* .not('provider_facility_name', 'is', null).ilike(..., `%${query}%`)
\* [.eq('practice_facility_specialty', specialty)]
PracticeRows(rows, query, specialty) ==
    { d \in rows : /\ d.provider_facility_name # NULL
                   /\ ILikeContains(d.provider_facility_name, query)
                   /\ Truthy(specialty) => d.practice_facility_specialty = specialty }

\* Array.from(counts.entries()).sort(([,a], [,b]) => b - a)[0]?.[0] || first:
\* the truthy value of the field that the rows hold most often, the one seen
\* first among equals; '' when no row has one
MostCommon(rows, Field(_)) ==
    LET having == SelectSeq(rows, LAMBDA d : Truthy(Field(d)))
        first == Firsts(having, Field)
        count(i) == Len(SelectSeq(having, LAMBDA d : Field(d) = Field(having[i])))
    IN IF having = <<>> THEN EMPTY
       ELSE LET best == CHOOSE k \in 1..Len(first) :
                           /\ \A m \in 1..Len(first) : count(first[m]) <= count(first[k])
                           /\ \A m \in 1..(k - 1) : count(first[m]) < count(first[k])
            IN Field(having[first[best]])

SpecialtyOf(d) == d.practice_facility_specialty
LocationOf(d) == d.location_of_service
SizeOf(d) == d.practice_facility_size
NameOf(d) == d.provider_facility_name

\* practiceMap and practices: one candidate per provider_facility_name of the
\* fetched rows, counting the fetched rows
Practices(rows, limit) ==
    LET first == Firsts(rows, NameOf)
        of(i) == SelectSeq(rows, LAMBDA d : NameOf(d) = NameOf(rows[i]))
        all == [k \in 1..Len(first) |->
                  [ name |-> NameOf(rows[first[k]]),
                    specialty |-> MostCommon(of(first[k]), SpecialtyOf),
                    location |-> MostCommon(of(first[k]), LocationOf),
                    size |-> MostCommon(of(first[k]), SizeOf),
                    disputeCount |-> Len(of(first[k])) ]]
    IN SliceTo(SortByCount(all), limit)

\* The rows the email-domain fallback matches
DomainRows(rows, query) ==
    { d \in rows : /\ d.provider_email_domain # NULL
                   /\ ILikeContains(d.provider_email_domain, query) }

\* item.provider_email_domain?.trim().toLowerCase()
DomainKey(d) == LowerCase(Trim(d.provider_email_domain))

\* domainMap and domains: one candidate per trimmed, lower-cased domain
Domains(rows, limit) ==
    LET kept == SelectSeq(rows, LAMBDA d : Truthy(DomainKey(d)))
        first == Firsts(kept, DomainKey)
        all == [k \in 1..Len(first) |->
                  [ name |-> DomainKey(kept[first[k]]),
                    disputeCount |->
                        Len(SelectSeq(kept, LAMBDA d : DomainKey(d) = DomainKey(kept[first[k]]))) ]]
    IN SliceTo(SortByCount(all), limit)

\* The store function get_email_domains_with_counts(search_query, result_limit)
EmailDomainsWithCounts(rows, limit) == Domains(rows, limit)

\* The rows the facility-group search matches
GroupRows(rows, query) ==
    { d \in rows : /\ d.provider_facility_group_name # NULL
                   /\ ILikeContains(d.provider_facility_group_name, query) }

\* groupName.toLowerCase() of item.provider_facility_group_name?.trim()
GroupKey(d) == LowerCase(Trim(d.provider_facility_group_name))

\* groupMap and groups: one candidate per trimmed, lower-cased group name,
\* named as the first fetched row names it
Groups(rows, limit) ==
    LET kept == SelectSeq(rows, LAMBDA d : Truthy(Trim(d.provider_facility_group_name)))
        first == Firsts(kept, GroupKey)
        of(i) == SelectSeq(kept, LAMBDA d : GroupKey(d) = GroupKey(kept[i]))
        all == [k \in 1..Len(first) |->
                  [ name |-> Trim(kept[first[k]].provider_facility_group_name),
                    disputeCount |-> Len(of(first[k])),
                    locationCount |->
                        Cardinality({LocationOf(of(first[k])[m]) : m \in 1..Len(of(first[k]))}
                                    \ {NULL, EMPTY}) ]]
    IN SliceTo(SortByCount(all), limit)

\* The store of the search specification: the disputes above and one that
\* spells a group and a domain of theirs in other case
SearchUniverse ==
    Universe \cup { Dispute("2024-Q4", "Radiology", "CA", "Over 500 Employees", "Mercy",
                            "MERCY GROUP", "LawFirm.com", FALSE) }

SearchStores ==
    { SearchUniverse, {d \in SearchUniverse : d.data_quarter = "2024-Q4"},
      {d \in SearchUniverse : d.provider_facility_name = "Mercy"}, {} }

\* searchParams.get('q'), searchParams.get('specialty'), searchParams.get('limit')
SearchQueries == {NULL, EMPTY, "M", "Me", "Mercy", "General", "lawfirm.com"}
SearchSpecialties == {NULL, "Cardiology"}
SearchLimits == {NULL, "1", "2"}

SearchRequest(endpoint, query, specialty, limit) ==
    [ endpoint |-> endpoint, q |-> query, specialty |-> specialty, limit |-> limit ]

NoSearch == SearchRequest("none", NULL, NULL, NULL)
NoSearchResponse == [ status |-> 0, candidates |-> NoList, message |-> UNDEF, error |-> UNDEF ]

SearchParked ==
    /\ sStore = {}
    /\ sReq = NoSearch
    /\ sResp = NoSearchResponse
    /\ sExecuted = 0

----------------------------------------------------------------------------
(* The dashboard's entity search and autofill (searchPracticeNames,        *)
(* searchEmailDomains, searchFacilityGroups, handlePracticeSelection, the  *)
(* auto-select effect).  The loading flags of the three inputs are left    *)
(* out; the filter options are loaded.                                     *)

\* selectedPractice === null
NoPractice == [name |-> NULL, specialty |-> NULL, location |-> NULL, size |-> NULL]

\* Before the user has used the specialty Select
NotChosen == "<not chosen>"

\* filterOptions.specialties, .states, .practice_sizes
FilterOptionSpecialties == {"Cardiology", "Radiology"}
FilterOptionStates == {[code |-> "NY", name |-> "New York"], [code |-> "CA", name |-> "California"]}
FilterOptionSizes == {"20-50 Employees", "Over 500 Employees"}

\* options.find(s => s.toLowerCase() === v.toLowerCase()) || v
MatchOption(options, v) ==
    IF \E o \in options : LowerCase(o) = LowerCase(v)
    THEN CHOOSE o \in options : LowerCase(o) = LowerCase(v)
    ELSE v

\* states.find(s => s.code === v || s.name.toLowerCase() === v.toLowerCase())?.code || v
MatchState(v) ==
    IF \E o \in FilterOptionStates : o.code = v \/ LowerCase(o.name) = LowerCase(v)
    THEN (CHOOSE o \in FilterOptionStates : o.code = v \/ LowerCase(o.name) = LowerCase(v)).code
    ELSE v

\* practiceNameSuggestions: data.practices.map(p => p.name)
Names(list) == [i \in 1..Len(list) |-> list[i].name]
Includes(list, v) == \E i \in 1..Len(list) : list[i] = v

\* handlePracticeSelection(selectedPracticeName): the filters and the
\* selected practice afterwards
HandlePracticeSelection(f, data, selected, selectedPracticeName) ==
    IF \E i \in 1..Len(data) : data[i].name = selectedPracticeName
    THEN LET practice ==
                data[CHOOSE i \in 1..Len(data) :
                        /\ data[i].name = selectedPracticeName
                        /\ \A j \in 1..(i - 1) : data[j].name # selectedPracticeName]
         IN [ filters |-> [f EXCEPT
                             !.specialty = MatchOption(FilterOptionSpecialties, practice.specialty),
                             !.state = MatchState(practice.location),
                             !.practice_size = MatchOption(FilterOptionSizes, practice.size)],
              selected |-> [name |-> practice.name, specialty |-> practice.specialty,
                            location |-> practice.location, size |-> practice.size] ]
    ELSE [filters |-> f, selected |-> selected]

\* The auto-select effect, run after a render that changed what it reads
AutoSelect(f, name, data, selected) ==
    IF /\ Len(data) > 0
       /\ Truthy(name)
       /\ selected = NoPractice
       /\ FilterOptionSpecialties # {}
       /\ \E i \in 1..Len(data) : LowerCase(data[i].name) = LowerCase(name)
    THEN LET exactMatch ==
                data[CHOOSE i \in 1..Len(data) :
                        /\ LowerCase(data[i].name) = LowerCase(name)
                        /\ \A j \in 1..(i - 1) : LowerCase(data[j].name) # LowerCase(name)]
         IN HandlePracticeSelection(f, data, selected, exactMatch.name)
    ELSE [filters |-> f, selected |-> selected]

\* value && value.length >= 2
LongEnough(value) == Truthy(value) /\ Len(value) >= 2

\* A scheduled or running search: which one, its query, and for the
\* practice search the filters.specialty of the render that scheduled it
Search(kind, query, specialty) == [kind |-> kind, query |-> query, specialty |-> specialty]

\* The limit the dashboard asks for
CLIENT_LIMIT == 10

\* The store the dashboard's searches run against
ClientStore ==
    { Dispute("2024-Q4", "Cardiology", "NY", "20-50 Employees", "General",
              "Mercy Group", "lawfirm.com", TRUE),
      Dispute("2024-Q4", "Cardiology", "CA", "Over 500 Employees", "General Hospital",
              "Mercy Group", "lawfirm.com", FALSE),
      Dispute("2024-Q4", NULL, "NY", NULL, "Mercy", NULL, NULL, FALSE) }

\* The lists a search can be answered with: data.practices, and the names
\* of data.domains and of data.groups
PracticeAnswers(query, specialty) ==
    { Practices(data, CLIENT_LIMIT) :
        data \in Fetch(PracticeRows(ClientStore, query, specialty),
                       CLIENT_LIMIT * PRACTICE_FETCH_FACTOR) }

DomainAnswers(query) ==
    { Names(EmailDomainsWithCounts(data, CLIENT_LIMIT)) :
        data \in Fetch(DomainRows(ClientStore, query), DOMAIN_QUERY_LIMIT) }

GroupAnswers(query) ==
    { Names(Groups(data, CLIENT_LIMIT)) :
        data \in Fetch(GroupRows(ClientStore, query), GROUP_QUERY_LIMIT) }

\* What the user types or picks in the three inputs
PracticeNameTexts == {"M", "General"}
EmailDomainQueries == {EMPTY, "lawfirm.com"}
FacilityGroupQueries == {"M", "Mercy"}

\* The specialties the user picks in the Select (null is "All Specialties")
PickedSpecialties == {"Radiology", NULL}

\* Searches scheduled or running at a time
MaxPending == 2

AutofillParked ==
    /\ practiceData = <<>>
    /\ selectedPractice = NoPractice
    /\ emailDomainSuggestions = <<>>
    /\ facilityGroupSuggestions = <<>>
    /\ timers = {}
    /\ fetches = {}
    /\ chosenSpecialty = NotChosen

AnParked ==
    /\ anCohort = <<>>
    /\ anResult = NotComputed

----------------------------------------------------------------------------
(* The cache specification                                                 *)

\* The state after MAX_CACHE_ENTRIES calls, all started in millisecond 0,
\* of which the first n succeeded (in call order) and the others failed.
InitCache ==
    /\ \E n \in PrefillSizes :
          /\ filterCache = Prefilled(n)
          /\ storeCount = n
          /\ failed = (n + 1)..MAX_CACHE_ENTRIES
    /\ callCount = MAX_CACHE_ENTRIES
    /\ now = 0
    /\ inflight = {}
    /\ lastCall = NoCall
    /\ lastDone = NoDone
    /\ BenchParked
    /\ DashParked
    /\ InsParked
    /\ AnParked
    /\ SearchParked
    /\ AutofillParked

\* Date.now() moves on between two events.
Tick(d) ==
    /\ now + d <= MaxNow
    /\ now' = now + d
    /\ UNCHANGED <<filterCache, inflight, callCount, storeCount, failed, lastCall, lastDone>>
    /\ UNCHANGED notCacheVars

\* getFilterOptions(filters) up to its first await: the cache lookup, and
\* either the cached bundle is returned or the fetch is issued.
GetFilterOptions(filters) ==
    LET cacheKey == CacheKey(filters)
        hadEntry == MapHas(filterCache, cacheKey)
        record(kind) ==
            [ kind |-> kind, arg |-> filters, key |-> cacheKey, at |-> now,
              hadEntry |-> hadEntry,
              entry |-> IF hadEntry THEN MapGet(filterCache, cacheKey) ELSE NoEntry,
              \* history: a fresh entry stored for the same three values exists
              shared |-> \E i \in 1..Len(filterCache) :
                            /\ filterCache[i].vals = Values(filters)
                            /\ IsFresh(filterCache[i], now) ]
    IN
    /\ callCount < MAX_CACHE_ENTRIES + MaxCalls
    /\ callCount' = callCount + 1
    /\ IF CacheHit(filterCache, cacheKey, now)
       THEN /\ lastCall' = record("cached")
            /\ UNCHANGED inflight
       ELSE /\ Cardinality(inflight) < MaxInFlight
            /\ inflight' = inflight \cup
                  {[id |-> callCount + 1, arg |-> filters, key |-> cacheKey, now |-> now,
                    params |-> UrlParams(filters)]}
            /\ lastCall' = record("fetch")
    /\ UNCHANGED <<filterCache, now, storeCount, failed, lastDone>>
    /\ UNCHANGED notCacheVars

\* The fetch of a suspended call succeeds (response.ok, no error field):
\* the bundle is stored under the call's key with the call's start time.
FetchSucceeds(p) ==
    /\ p \in inflight
    /\ inflight' = inflight \ {p}
    /\ storeCount' = storeCount + 1
    /\ filterCache' = Store(filterCache, p, now, storeCount + 1)
    /\ lastDone' = [kind |-> "stored", key |-> p.key,
                    evicted |-> Evicted(filterCache, NewEntry(p, now, storeCount + 1))]
    /\ UNCHANGED <<now, callCount, failed, lastCall>>
    /\ UNCHANGED notCacheVars

\* The fetch of a suspended call fails: fetch rejects, the status is not
\* OK, or the body carries a truthy error field.  The throw is caught and
\* the empty bundle returned; the cache is not touched.
FetchFailsCaching(p, why) ==
    /\ p \in inflight
    /\ inflight' = inflight \ {p}
    /\ failed' = failed \cup {p.id}
    /\ storeCount' = storeCount + 1
    /\ filterCache' = Store(filterCache, p, now, storeCount + 1)
    /\ lastDone' = [kind |-> why, key |-> p.key, evicted |-> <<>>]
    /\ UNCHANGED <<now, callCount, lastCall>>
    /\ UNCHANGED notCacheVars
FetchFails(p, why) ==
    /\ p \in inflight
    /\ inflight' = inflight \ {p}
    /\ failed' = failed \cup {p.id}
    /\ lastDone' = [kind |-> why, key |-> p.key, evicted |-> <<>>]
    /\ UNCHANGED <<filterCache, now, callCount, storeCount, lastCall>>
    /\ UNCHANGED notCacheVars

NextCache ==
    \/ \E d \in Delays : Tick(d)
    \/ \E a \in Args : GetFilterOptions(a)
    \/ \E p \in inflight : FetchSucceeds(p)
    \/ \E p \in inflight, why \in FailureKinds : FetchFails(p, why)

SpecCache == InitCache /\ [][NextCache]_vars

----------------------------------------------------------------------------
(* Properties of the filter-option cache                                  *)

\* C1: whenever a getFilterOptions call has returned (hit, miss, failure,
\* any interleaving of completions), the cache holds at most 20 entries.
C1_CacheBounded == Len(filterCache) <= MAX_CACHE_ENTRIES

\* A store that pushed the cache over 20 entries and evicted one.
C1_Witness ==
    /\ lastDone.kind = "stored"
    /\ lastDone.evicted # <<>>
    /\ Len(filterCache) = MAX_CACHE_ENTRIES

\* C2: a stored bundle is returned without a fetch only when the key's
\* entry is less than 5 minutes old (by its timestamp and by the time it
\* was stored); an entry 5 minutes old or older is never returned and the
\* call fetches instead.
C2_OnlyFreshServed ==
    /\ lastCall.kind = "cached" =>
          /\ lastCall.hadEntry
          /\ lastCall.at - lastCall.entry.timestamp < CACHE_DURATION
          /\ lastCall.at - lastCall.entry.storedAt < CACHE_DURATION
          /\ \A p \in inflight : p.id # callCount
    /\ ( /\ lastCall.hadEntry
         /\ \/ lastCall.at - lastCall.entry.timestamp >= CACHE_DURATION
            \/ lastCall.at - lastCall.entry.storedAt >= CACHE_DURATION )
       => lastCall.kind = "fetch"

\* A call that found an entry exactly 5 minutes old and fetched.
C2_Witness ==
    /\ lastCall.kind = "fetch"
    /\ lastCall.hadEntry
    /\ lastCall.at - lastCall.entry.timestamp = CACHE_DURATION
    /\ \E p \in inflight : p.id = callCount

\* C3: when a store pushes the cache over 20 entries, exactly one entry is
\* evicted and no remaining entry holds data stored earlier than the
\* evicted entry's data.
C3_EvictsOldestData ==
    lastDone.evicted # <<>> =>
        /\ Len(filterCache) = MAX_CACHE_ENTRIES
        /\ \A i \in 1..Len(filterCache) : filterCache[i].seq > lastDone.evicted[1].seq

\* C4: a call whose fetch fails leaves the cache exactly as it was (nothing
\* added, replaced or evicted), and nothing a failed call produced is ever
\* in the cache or handed out by a later call, which therefore fetches.
C4_FailureLeavesCache ==
    /\ [][failed' # failed => filterCache' = filterCache]_vars
    /\ [](\A i \in 1..Len(filterCache) : filterCache[i].data.fetch \notin failed)
    /\ [](lastCall.kind = "cached" => lastCall.entry.data.fetch \notin failed)

\* The first call failed and a second call with the same key is fetching.
C4_Witness ==
    /\ lastDone.kind \in FailureKinds
    /\ (MAX_CACHE_ENTRIES + 1) \in failed
    /\ callCount = MAX_CACHE_ENTRIES + 2
    /\ lastCall.kind = "fetch"
    /\ lastCall.key = lastDone.key
    /\ \E p \in inflight : p.id = callCount /\ p.key = lastDone.key

\* C5: two requests use the same entry exactly when their specialty, state
\* and quarter values are equal (whatever the property order, absent or
\* undefined): a call fetches only when no fresh entry stored for the same
\* values exists, and a hit returns a bundle fetched for the same values.
C5_KeyIsTheValues ==
    /\ lastCall.kind = "fetch" => ~lastCall.shared
    /\ lastCall.kind = "cached" =>
          /\ lastCall.entry.vals = Values(lastCall.arg)
          /\ lastCall.entry.data.params = UrlParams(lastCall.arg)

----------------------------------------------------------------------------
(* The benchmark request specification                                     *)

InitBench ==
    /\ store \in Stores
    /\ bFilters \in FilterInputs
    /\ bStage = [c \in Calls |-> "idle"]
    /\ bReq = [c \in Calls |-> NoRequest]
    /\ bResp = [c \in Calls |-> NoResponse]
    /\ bRet = [c \in Calls |-> NotReturned]
    /\ CacheParked
    /\ DashParked
    /\ InsParked
    /\ AnParked
    /\ SearchParked
    /\ AutofillParked

\* getProviderBenchmark(filters) up to `await fetch`
GetProviderBenchmark ==
    /\ bStage["mine"] = "idle"
    /\ bStage' = [bStage EXCEPT !["mine"] = "sent"]
    /\ bReq' = [bReq EXCEPT !["mine"] = ProviderRequest(bFilters)]
    /\ UNCHANGED <<store, bFilters, bResp, bRet>>
    /\ UNCHANGED notBenchVars

\* getPeerBenchmark(filters) up to `await fetch`
GetPeerBenchmark ==
    /\ bStage["peer"] = "idle"
    /\ bStage' = [bStage EXCEPT !["peer"] = "sent"]
    /\ bReq' = [bReq EXCEPT !["peer"] = PeerRequest(bFilters)]
    /\ UNCHANGED <<store, bFilters, bResp, bRet>>
    /\ UNCHANGED notBenchVars

\* The route handler serves the request of call c; the store query fails
\* (storeFails) or is evaluated.
PostBenchmark(c, storeFails) ==
    /\ bStage[c] = "sent"
    /\ LET call == ProcedureCall(bReq[c])
           result == Rpc(store, call, storeFails)
           resp == BenchmarkResponse(result)
       IN bResp' = [bResp EXCEPT ![c] =
                      [ status |-> resp.status, data |-> resp.data, error |-> resp.error,
                        storeFailed |-> storeFails, call |-> call,
                        selected |-> IF storeFails THEN {} ELSE Selected(store, call),
                        analytics |-> Analytics(store, bReq[c], resp.status) ]]
    /\ bStage' = [bStage EXCEPT ![c] = "responded"]
    /\ UNCHANGED <<store, bFilters, bReq, bRet>>
    /\ UNCHANGED notBenchVars

\* The service call resumes with the response and returns.
ServiceReturns(c) ==
    /\ bStage[c] = "responded"
    /\ bRet' = [bRet EXCEPT ![c] = ServiceReturn(bResp[c])]
    /\ bStage' = [bStage EXCEPT ![c] = "returned"]
    /\ UNCHANGED <<store, bFilters, bReq, bResp>>
    /\ UNCHANGED notBenchVars

\* fetch rejects (the request never reaches the route): the catch block
\* returns null.
FetchRejects(c) ==
    /\ bStage[c] = "sent"
    /\ bRet' = [bRet EXCEPT ![c] = JsNull]
    /\ bStage' = [bStage EXCEPT ![c] = "returned"]
    /\ UNCHANGED <<store, bFilters, bReq, bResp>>
    /\ UNCHANGED notBenchVars

NextBench ==
    \/ GetProviderBenchmark
    \/ GetPeerBenchmark
    \/ \E c \in Calls, storeFails \in BOOLEAN : PostBenchmark(c, storeFails)
    \/ \E c \in Calls : ServiceReturns(c)
    \/ \E c \in Calls : FetchRejects(c)

SpecBench == InitBench /\ [][NextBench]_vars

----------------------------------------------------------------------------
(* Properties of the benchmark request path                               *)

\* What a service call returns when the route found no data (404)
NoDataReturn == ServiceReturn(BenchmarkResponse([error |-> NULL, data |-> <<>>]))

\* C6: whenever the Record Store query fails while a benchmark request is
\* served, the caller of the service call receives an outcome that differs
\* from the one it receives for a request that found no data.
C6_StoreFailureSurfaces ==
    \A c \in Calls :
        (bStage[c] = "returned" /\ bResp[c].storeFailed) => bRet[c] # NoDataReturn

\* C7: for every cohort predicate, also one matching no record,
\* get_provider_benchmark called through POST /api/benchmark answers without
\* an error, with a provider_win_rate within [0, 100] (here in hundredths),
\* and with total_disputes 0 and provider_win_rate 0 when no record matches.
C7_BenchmarkNeverErrors ==
    \A c \in Calls :
        ( /\ bStage[c] \in {"responded", "returned"}
          /\ bResp[c].call.name = "get_provider_benchmark"
          /\ ~bResp[c].storeFailed )
        => /\ bResp[c].status = 200
           /\ bResp[c].data.provider_win_rate \in 0..10000
           /\ bResp[c].selected = {}
                => /\ bResp[c].data.total_disputes = 0
                   /\ bResp[c].data.provider_win_rate = 0

\* The mine request adds nothing but state and practice size to a given
\* specialty and quarter.
OnlyStateAndSize(f) ==
    /\ Truthy(f.specialty)
    /\ Truthy(f.quarter)
    /\ ~Truthy(f.practice_name)
    /\ ~Truthy(f.email_domain)
    /\ ~Truthy(f.facility_group)

BothServed ==
    \A c \in Calls : bStage[c] \in {"responded", "returned"} /\ bResp[c].call.name # "none"
                     /\ ~bResp[c].storeFailed

\* C8: for a profile with specialty S and quarter Q whose mine request adds
\* only state and/or practice size, every record the mine request selects is
\* selected by the peer request as well.
C8_PeerSuperset ==
    (BothServed /\ OnlyStateAndSize(bFilters))
        => bResp["mine"].selected \subseteq bResp["peer"].selected

C8_Witness ==
    /\ BothServed
    /\ OnlyStateAndSize(bFilters)
    /\ Truthy(bFilters.state)
    /\ bFilters.quarter = "2024-Q3"
    /\ bResp["mine"].selected # {}
    /\ bResp["mine"].selected # bResp["peer"].selected
    /\ bResp["mine"].selected \subseteq bResp["peer"].selected

\* C9: for every profile the peer request carries the same specialty and
\* the same quarter scope as the mine request (no quarter restriction on
\* either side when none is given) and no state, practice-size or
\* identifying-value condition.
C9_PeerSameScope ==
    (bStage["mine"] # "idle" /\ bStage["peer"] # "idle")
        => LET mine == ProcedureCall(bReq["mine"]).params
               peer == ProcedureCall(bReq["peer"]).params
           IN /\ peer.p_specialty = mine.p_specialty
              /\ peer.p_quarter = mine.p_quarter
              /\ peer.p_state = NULL
              /\ peer.p_practice_size = NULL
              /\ peer.p_practice_name = NULL
              /\ peer.p_email_domain = NULL
              /\ peer.p_facility_group = NULL

\* The identifying value of a profile: practice name, facility-group name
\* or email domain, by user type.
IdentifyingValue(f) ==
    CASE f.user_type = "law_firm" -> f.email_domain
      [] f.user_type = "provider_group" -> f.facility_group
      [] OTHER -> f.practice_name

\* C11: for each user type, a benchmark request whose identifying value is
\* missing or empty after trimming is rejected with a validation failure
\* (status 400) and no store query is executed for it.
C11_IdentifierRequired ==
    ( /\ bStage["mine"] \in {"responded", "returned"}
      /\ bResp["mine"].status # 0
      /\ ~Truthy(Trim(IdentifyingValue(bFilters))) )
    => /\ bResp["mine"].status = 400
       /\ bResp["mine"].call.name = "none"

\* C19: within one response that carries an identifying value, the
\* service-code analysis and the scalar benchmark cover the same cohort for
\* every user type, so total_cases_in_analytics equals total_disputes.
C19_SameCohort ==
    \A c \in Calls :
        (bStage[c] \in {"responded", "returned"} /\ bResp[c].analytics.kind = "rows")
            => /\ bResp[c].analytics.rows = bResp[c].selected
               /\ Cardinality(bResp[c].analytics.rows) = bResp[c].data.total_disputes

----------------------------------------------------------------------------
(* The dashboard specification                                             *)

InitDash ==
    /\ dFilters = InitialFilters
    /\ practiceName = EMPTY
    /\ emailDomain = EMPTY
    /\ facilityGroup = EMPTY
    /\ loading = FALSE
    /\ providerMetrics = JsNull
    /\ peerMetrics = JsNull
    /\ insights = <<>>
    /\ runs = {}
    /\ invokeLog = <<>>
    /\ CacheParked
    /\ BenchParked
    /\ InsParked
    /\ AnParked
    /\ SearchParked
    /\ AutofillParked

\* The user-type Select's onChange
SelectUserType(u) ==
    /\ dFilters' = [dFilters EXCEPT !.user_type = u]
    /\ practiceName' = EMPTY
    /\ emailDomain' = EMPTY
    /\ facilityGroup' = EMPTY
    /\ providerMetrics' = JsNull
    /\ peerMetrics' = JsNull
    /\ insights' = <<>>
    /\ selectedPractice' = NoPractice
    /\ UNCHANGED <<loading, runs, invokeLog>>
    /\ UNCHANGED <<practiceData, emailDomainSuggestions, facilityGroupSuggestions, timers,
                   fetches, chosenSpecialty>>
    /\ UNCHANGED notUiVars

\* The specialty Select's onChange (value null when cleared)
SelectSpecialty(value) ==
    /\ dFilters' = [dFilters EXCEPT !.specialty = OrUndefined(value)]
    /\ chosenSpecialty' = OrUndefined(value)
    /\ UNCHANGED <<practiceName, emailDomain, facilityGroup, loading, providerMetrics,
                   peerMetrics, insights, runs, invokeLog>>
    /\ UNCHANGED <<practiceData, selectedPractice, emailDomainSuggestions,
                   facilityGroupSuggestions, timers, fetches>>
    /\ UNCHANGED notUiVars

\* The email-domain input's onChange (shown for law firms)
TypeEmailDomain(value) ==
    /\ dFilters.user_type = "law_firm"
    /\ emailDomain' = value
    /\ UNCHANGED <<dFilters, practiceName, facilityGroup, loading, providerMetrics,
                   peerMetrics, insights, runs, invokeLog>>
    /\ UNCHANGED notDashVars

\* The facility-group input's onChange (shown for provider groups)
TypeFacilityGroup(value) ==
    /\ dFilters.user_type = "provider_group"
    /\ facilityGroup' = value
    /\ UNCHANGED <<dFilters, practiceName, emailDomain, loading, providerMetrics,
                   peerMetrics, insights, runs, invokeLog>>
    /\ UNCHANGED notDashVars

\* runBenchmarkAnalysis up to the await of Promise.all: the validation
\* block, setLoading(true) and both service calls up to their fetch.
RunBenchmarkAnalysis ==
    /\ Len(invokeLog) < MaxInvocations
    /\ LET alert == ValidationAlert(dFilters, emailDomain, facilityGroup)
           id == Len(invokeLog) + 1
           entry == [user_type |-> dFilters.user_type, specialty |-> dFilters.specialty,
                     alert |-> alert]
       IN
       /\ invokeLog' = Append(invokeLog, entry)
       /\ IF alert # "none"
          THEN UNCHANGED <<loading, runs>>
          ELSE /\ loading' = TRUE
               /\ runs' = runs \cup
                    { [ id |-> id,
                        user_type |-> dFilters.user_type,
                        mineReq |-> ProviderRequest(ProviderFilters(dFilters, practiceName,
                                                                    emailDomain, facilityGroup)),
                        peerReq |-> PeerRequest(dFilters) ] }
    /\ UNCHANGED <<dFilters, practiceName, emailDomain, facilityGroup, providerMetrics,
                   peerMetrics, insights>>
    /\ UNCHANGED notDashVars

\* A click on the Run Analysis button, which is enabled
ClickRun == ~RunButtonDisabled /\ RunBenchmarkAnalysis

\* The handler called although the button is shown disabled
RunWhileDisabled == RunButtonDisabled /\ RunBenchmarkAnalysis

\* The same, with results shown as soon as the mine request has data
ResumeRunUnjoined(r, providerData, peerData) ==
    /\ runs' = runs \ {r}
    /\ IF providerData = JsNull \/ providerData.total_disputes = 0
       THEN UNCHANGED <<providerMetrics, peerMetrics, insights>>
       ELSE /\ providerMetrics' = providerData
            /\ peerMetrics' = peerData
            /\ insights' = GeneratedInsights(providerData, peerData, r.user_type)
    /\ loading' = FALSE
    /\ UNCHANGED <<dFilters, practiceName, emailDomain, facilityGroup, invokeLog>>
    /\ UNCHANGED notDashVars

\* Promise.all resolves with what the two service calls of run r returned,
\* and runBenchmarkAnalysis runs on through `finally`.
ResumeRun(r, providerData, peerData) ==
    /\ runs' = runs \ {r}
    /\ IF providerData = JsNull \/ peerData = JsNull \/ providerData.total_disputes = 0
       THEN UNCHANGED <<providerMetrics, peerMetrics, insights>>
       ELSE /\ providerMetrics' = providerData
            /\ peerMetrics' = peerData
            /\ insights' = GeneratedInsights(providerData, peerData, r.user_type)
    /\ loading' = FALSE
    /\ UNCHANGED <<dFilters, practiceName, emailDomain, facilityGroup, invokeLog>>
    /\ UNCHANGED notDashVars

NextDash ==
    \/ \E u \in UserTypes : SelectUserType(u)
    \/ \E v \in Specialties \cup {NULL} : SelectSpecialty(v)
    \/ \E t \in EmailDomainTexts : TypeEmailDomain(t)
    \/ \E t \in FacilityGroupTexts : TypeFacilityGroup(t)
    \/ ClickRun
    \/ RunWhileDisabled
    \/ \E r \in runs, providerData \in Outcomes, peerData \in Outcomes :
          ResumeRun(r, providerData, peerData)

SpecDash == InitDash /\ [][NextDash]_vars

----------------------------------------------------------------------------
(* Properties of the dashboard                                            *)

IdentifierGiven ==
    \/ dFilters.user_type = "law_firm" /\ Truthy(Trim(emailDomain))
    \/ dFilters.user_type = "provider_group" /\ Truthy(Trim(facilityGroup))

\* C10: runBenchmarkAnalysis with user_type individual_provider and no
\* specialty is rejected before any request is issued (no run is started,
\* loading, the displayed metrics and the insights stay as they are), while
\* a law_firm or provider_group profile (with its identifying value) and no
\* specialty issues the mine and the peer request.
C10_SpecialtyGate ==
    [][ Len(invokeLog') > Len(invokeLog) =>
          /\ (dFilters.user_type = "individual_provider" /\ ~Truthy(dFilters.specialty))
               => /\ runs' = runs
                  /\ loading' = loading
                  /\ providerMetrics' = providerMetrics
                  /\ peerMetrics' = peerMetrics
                  /\ insights' = insights
                  /\ invokeLog'[Len(invokeLog')].alert # "none"
          /\ (IdentifierGiven /\ ~Truthy(dFilters.specialty))
               => /\ loading'
                  /\ \E r \in runs' \ runs :
                        /\ r.mineReq.body.type = "provider"
                        /\ r.mineReq.body.filters.user_type = dFilters.user_type
                        /\ r.mineReq.body.filters.specialty = UNDEF
                        /\ r.peerReq.body.type = "peer"
    ]_vars

C10_Witness ==
    /\ Len(invokeLog) = 2
    /\ invokeLog[1].user_type = "individual_provider"
    /\ invokeLog[1].specialty = UNDEF
    /\ invokeLog[1].alert = "Please select a specialty to run the analysis"
    /\ invokeLog[2].user_type = "law_firm"
    /\ invokeLog[2].specialty = UNDEF
    /\ invokeLog[2].alert = "none"
    /\ loading
    /\ \E r \in runs : r.id = 2 /\ r.mineReq.url.email_domain = "lawfirm.com"

----------------------------------------------------------------------------
(* The generateInsights specification                                      *)

InitInsights ==
    /\ insProvider \in ProviderMetricsInputs
    /\ insPeer \in PeerMetricsInputs
    /\ insUserType \in UserTypes
    /\ insResult = NotCalled
    /\ CacheParked
    /\ BenchParked
    /\ DashParked
    /\ AnParked
    /\ SearchParked
    /\ AutofillParked

\* generateInsights(providerMetrics, peerMetrics, userType)
CallGenerateInsights ==
    /\ insResult = NotCalled
    /\ insResult' = GenerateInsights(insProvider, insPeer, insUserType)
    /\ UNCHANGED <<insProvider, insPeer, insUserType>>
    /\ UNCHANGED notInsVars

NextInsights == CallGenerateInsights

SpecInsights == InitInsights /\ [][NextInsights]_vars

----------------------------------------------------------------------------
(* Properties of generateInsights                                          *)

Called == insResult # NotCalled

Indexes(titles) == {i \in 1..Len(insResult) : insResult[i].title \in titles}

\* The difference mine - peers of two percentages, in hundredths
WinRateDiff == insProvider.provider_win_rate - insPeer.provider_win_rate

\* C12: for every user type and pair of win rates, exactly one win-rate
\* insight is emitted, as the first element, of type success when
\* mine - peers > 5, warning when it is < -5 and info otherwise (also at
\* exactly +5 and -5).
C12_WinRateInsight ==
    Called =>
        /\ Indexes(WinRateTitles) = {1}
        /\ insResult[1].type = IF WinRateDiff > 500 THEN "success"
                               ELSE IF WinRateDiff < -500 THEN "warning"
                               ELSE "info"

BothOffersGiven ==
    insProvider.avg_provider_offer_pct # NoNumber /\ insPeer.avg_provider_offer_pct # NoNumber

OfferDiff == insProvider.avg_provider_offer_pct[1] - insPeer.avg_provider_offer_pct[1]

\* C13: an offer-strategy insight is emitted exactly when both
\* avg_provider_offer_pct are non-null (0 counts as non-null) and
\* mine - peers is > 20 (warning) or < -20 (info); otherwise none is.
C13_OfferInsight ==
    Called =>
        IF BothOffersGiven /\ (OfferDiff > 2000 \/ OfferDiff < -2000)
        THEN /\ Cardinality(Indexes(OfferTitles)) = 1
             /\ \A i \in Indexes(OfferTitles) :
                   insResult[i].type = IF OfferDiff > 2000 THEN "warning" ELSE "info"
        ELSE Indexes(OfferTitles) = {}

\* C14: when peers.total_disputes is 0 no win-rate and no offer-strategy
\* insight is emitted: the list holds volume insights only.
C14_NoPeerNoComparison ==
    (Called /\ insPeer.total_disputes = 0) =>
        /\ Indexes(WinRateTitles) = {}
        /\ Indexes(OfferTitles) = {}

\* C15: for provider_group and law_firm a volume/coverage insight is
\* emitted for every input; for law_firm the additional success insight is
\* emitted exactly when specialties_represented >= 5.
C15_VolumeInsight ==
    (Called /\ insUserType \in {"provider_group", "law_firm"}) =>
        /\ Indexes(VolumeTitles) # {}
        /\ insUserType = "law_firm" =>
              ( (Indexes({"Multi-Specialty Expertise"}) # {})
                <=> ( insProvider.specialties_represented # NoNumber
                      /\ insProvider.specialties_represented[1] >= 5 ) )

----------------------------------------------------------------------------
(* The analytics specification                                             *)

InitAnalytics ==
    /\ anCohort \in Cohorts
    /\ anResult = NotComputed
    /\ CacheParked
    /\ BenchParked
    /\ DashParked
    /\ InsParked
    /\ SearchParked
    /\ AutofillParked

\* The analytics block of the route up to service_code_summary; each of the
\* two queries fails or is evaluated.
ProcessServiceCodes(serviceFails, missingFails) ==
    /\ anResult = NotComputed
    /\ anResult' = ServiceCodeAnalytics(anCohort, serviceFails, missingFails)
    /\ UNCHANGED anCohort
    /\ UNCHANGED notAnVars

NextAnalytics ==
    \E serviceFails \in BOOLEAN, missingFails \in BOOLEAN :
        ProcessServiceCodes(serviceFails, missingFails)

SpecAnalytics == InitAnalytics /\ [][NextAnalytics]_vars

----------------------------------------------------------------------------
(* Properties of the service-code analytics                                *)

\* The cohort records that carry a service code, and their number
Coded(cohort) == SelectSeq(cohort, HasCode)

\* The distinct (service_code, type_of_service_code) pairs of a cohort
Pairs(cohort) ==
    {<< Coded(cohort)[i].service_code, Coded(cohort)[i].type_of_service_code >> :
        i \in 1..Len(Coded(cohort))}

\* The number of cohort records with the pair p
PairCount(cohort, p) ==
    Rows(SelectSeq(Coded(cohort),
                   LAMBDA r : << r.service_code, r.type_of_service_code >> = p))

\* The tag a row shows for a pair: a pair without a tag is shown as 'Unknown'
ShownType(p) == IF p[2] = NULL THEN "Unknown" ELSE p[2]

Processed == anResult.kind = "present"

\* C16: the breakdown has exactly one row per distinct (service_code,
\* type_of_service_code) pair of the cohort records with a code, and the
\* row's total_disputes is the number of cohort records with that pair
\* (stated for cohorts whose pairs all fit in the returned list).
C16_OneRowPerPair ==
    Processed /\ Cardinality(Pairs(anCohort)) <= DISPLAY_CAP =>
        LET rows == anResult.service_code_analysis
        IN /\ Len(rows) = Cardinality(Pairs(anCohort))
           /\ \A p \in Pairs(anCohort) :
                \E i \in 1..Len(rows) :
                    /\ rows[i].service_code = p[1]
                    /\ rows[i].type_of_service_code = ShownType(p)
                    /\ rows[i].total_disputes = PairCount(anCohort, p)

RECURSIVE SumCases(_, _)
\* The sum of service_code_types[t].cases over the tags in ts
SumCases(stats, ts) ==
    IF ts = {} THEN 0
    ELSE LET t == CHOOSE x \in ts : TRUE
         IN stats[t].cases + SumCases(stats, ts \ {t})

\* C17: the per-type case counts add up to the number of cohort records with
\* a service code, and together with cases_missing_service_codes to the
\* number of records of the cohort.
C17_Reconciles ==
    Processed =>
        LET sum == SumCases(anResult.service_code_types, DOMAIN anResult.service_code_types)
        IN /\ sum = Rows(Coded(anCohort))
           /\ sum + anResult.cases_missing_service_codes = Rows(anCohort)

\* C18: service_code_analysis is in non-increasing order of total_disputes
\* and has at most 100 rows, and the summary figures are those of the whole
\* cohort whether or not the list was cut.
C18_CappedListFullSummary ==
    Processed =>
        LET rows == anResult.service_code_analysis
            all == ServiceCodeMap(Coded(anCohort))
        IN /\ \A i \in 1..(Len(rows) - 1) : rows[i].total_disputes >= rows[i + 1].total_disputes
           /\ Len(rows) <= DISPLAY_CAP
           /\ anResult.total_cases_with_service_codes = Rows(Coded(anCohort))
           /\ anResult.total_wins_with_service_codes = Won(Coded(anCohort))
           /\ anResult.service_code_types = TypeStats(Coded(anCohort))
           /\ anResult.total_service_codes = Len(all)
           /\ anResult.displayed_service_codes = Len(all)

----------------------------------------------------------------------------
(* The search endpoints                                                    *)

InitSearch ==
    /\ sStore \in SearchStores
    /\ sReq = NoSearch
    /\ sResp = NoSearchResponse
    /\ sExecuted = 0
    /\ CacheParked
    /\ BenchParked
    /\ DashParked
    /\ InsParked
    /\ AnParked
    /\ AutofillParked

\* GET /api/practice-search?q=..&specialty=..&limit=..
PracticeSearchGET(query, specialty, limit) ==
    /\ sReq' = SearchRequest("practice-search", query, specialty, limit)
    /\ IF TooShort(query)
       THEN sResp' = QueryTooShort /\ sExecuted' = 0
       ELSE /\ sExecuted' = 1
            /\ \/ sResp' = SearchError("Failed to search practices")
               \/ sResp' = SearchError("Internal server error")
               \/ \E data \in Fetch(PracticeRows(sStore, query, specialty),
                                    ParseLimit(limit) * PRACTICE_FETCH_FACTOR) :
                     sResp' = SearchResult(Practices(data, ParseLimit(limit)))
    /\ UNCHANGED sStore
    /\ UNCHANGED notSearchVars

\* GET /api/email-domain-search?q=..&limit=..: the store function, and the
\* plain query when the function answers with an error
EmailDomainSearchGET(query, limit) ==
    /\ sReq' = SearchRequest("email-domain-search", query, NULL, limit)
    /\ IF TooShort(query)
       THEN sResp' = QueryTooShort /\ sExecuted' = 0
       ELSE \/ sExecuted' = 1 /\ sResp' = SearchError("Internal server error")
            \/ /\ sExecuted' = 1
               \* the function returns its rows already counted
               /\ \E data \in Fetch(DomainRows(sStore, query), DOMAIN_QUERY_LIMIT) :
                     sResp' = SearchResult(EmailDomainsWithCounts(data, ParseLimit(limit)))
            \/ /\ sExecuted' = 2
               /\ \/ sResp' = SearchError("Failed to search email domains")
                  \/ sResp' = SearchError("Internal server error")
                  \/ \E data \in Fetch(DomainRows(sStore, query), DOMAIN_QUERY_LIMIT) :
                        sResp' = SearchResult(Domains(data, ParseLimit(limit)))
    /\ UNCHANGED sStore
    /\ UNCHANGED notSearchVars

\* GET /api/facility-group-search?q=..&limit=..
FacilityGroupSearchGET(query, limit) ==
    /\ sReq' = SearchRequest("facility-group-search", query, NULL, limit)
    /\ IF TooShort(query)
       THEN sResp' = QueryTooShort /\ sExecuted' = 0
       ELSE /\ sExecuted' = 1
            /\ \/ sResp' = SearchError("Failed to search facility groups")
               \/ sResp' = SearchError("Internal server error")
               \/ \E data \in Fetch(GroupRows(sStore, query), GROUP_QUERY_LIMIT) :
                     sResp' = SearchResult(Groups(data, ParseLimit(limit)))
    /\ UNCHANGED sStore
    /\ UNCHANGED notSearchVars

NextSearch ==
    \/ \E query \in SearchQueries, specialty \in SearchSpecialties, limit \in SearchLimits :
          PracticeSearchGET(query, specialty, limit)
    \/ \E query \in SearchQueries, limit \in SearchLimits :
          EmailDomainSearchGET(query, limit)
    \/ \E query \in SearchQueries, limit \in SearchLimits :
          FacilityGroupSearchGET(query, limit)

SpecSearch == InitSearch /\ [][NextSearch]_vars

\* A query that is missing or has fewer than 2 characters
ShortQuery(query) == query = NULL \/ Len(query) < 2

Searched == sReq # NoSearch

\* C20: a search request (practice, email domain or facility group) with a
\* missing query or one of fewer than 2 characters is answered with status
\* 200, an empty candidate list and a message, carries no error, and has
\* executed no store query.
C20_ShortQueryEmpty ==
    Searched /\ ShortQuery(sReq.q) =>
        /\ sResp.status = 200
        /\ sResp.candidates = List(<<>>)
        /\ sResp.message # UNDEF
        /\ sResp.error = UNDEF
        /\ sExecuted = 0

\* A one-character query has been answered by the facility-group search of a
\* store that holds rows
C20_Witness ==
    /\ sReq = SearchRequest("facility-group-search", "M", NULL, NULL)
    /\ sStore # {}
    /\ sResp = QueryTooShort

----------------------------------------------------------------------------
(* Properties of the results area of the dashboard                         *)

\* C25: the insights shown are those generated from the displayed pair of
\* results, both of which are data (generateInsights ran after both requests
\* had completed with data, and the three were set together), and
\* providerMetrics is null exactly when peerMetrics is null.
C25_JoinedResults ==
    /\ (providerMetrics = JsNull) <=> (peerMetrics = JsNull)
    /\ insights # <<>> =>
          /\ providerMetrics.kind = "metrics"
          /\ peerMetrics.kind = "metrics"
          /\ insights[1].provider = providerMetrics
          /\ insights[1].peer = peerMetrics
    /\ providerMetrics # JsNull => insights # <<>>

\* An analysis has completed with data for both requests and is displayed
C25_Witness ==
    /\ runs = {}
    /\ ~loading
    /\ providerMetrics.kind = "metrics"
    /\ peerMetrics.kind = "metrics"
    /\ insights # <<>>

\* C26: the cleared results area is populated only by an analysis that was
\* started under the user type now selected; an analysis started under
\* another user type, still in flight when the user switched, leaves the
\* area cleared.
C26_SwitchKeepsCleared ==
    [][ (providerMetrics = JsNull /\ providerMetrics' # JsNull) =>
            \E r \in runs \ runs' : r.user_type = dFilters.user_type ]_vars

----------------------------------------------------------------------------
(* The dashboard driven through its controls only: runBenchmarkAnalysis is *)
(* the onClick of the Run Analysis button and has no other caller.  A      *)
(* request that was sent settles, so a suspended analysis resumes.         *)

Resume ==
    \E r \in runs, providerData \in Outcomes, peerData \in Outcomes :
        ResumeRun(r, providerData, peerData)

NextDashButton ==
    \/ \E u \in UserTypes : SelectUserType(u)
    \/ \E v \in Specialties \cup {NULL} : SelectSpecialty(v)
    \/ \E t \in EmailDomainTexts : TypeEmailDomain(t)
    \/ \E t \in FacilityGroupTexts : TypeFacilityGroup(t)
    \/ ClickRun
    \/ Resume

SpecDashLive == InitDash /\ [][NextDashButton]_vars /\ WF_vars(Resume)

\* C30: an invocation of runBenchmarkAnalysis that passes validation starts
\* with loading false and sets it to true; loading is true exactly while an
\* analysis is in flight and is eventually set back to false; at most one
\* analysis is in flight.
C30_LoadingLifecycle ==
    /\ [](Cardinality(runs) <= 1)
    /\ [](loading <=> runs # {})
    /\ [][ (Len(invokeLog') > Len(invokeLog) /\ invokeLog'[Len(invokeLog')].alert = "none")
              => ~loading /\ loading' /\ runs' # runs ]_vars
    /\ (loading ~> ~loading)

\* Two analyses have been started from the button, the second after the
\* first had finished, and the second has finished too
C30_Witness ==
    /\ Len(invokeLog) = 2
    /\ invokeLog[1].alert = "none"
    /\ invokeLog[2].alert = "none"
    /\ runs = {}
    /\ ~loading

----------------------------------------------------------------------------
(* Overlapping calls of getFilterOptions                                   *)

\* C29: the entry stored for a key never goes back to an earlier call: when
\* an entry of a key is replaced, the new entry's timestamp is not earlier
\* than the old one's and its data is not that of a call started earlier
\* (calls are numbered in the order in which they start), so that after two
\* overlapping calls the entry is the one of the call that started last.
C29_LastStartedWins ==
    [][ \A i \in 1..Len(filterCache) : \A j \in 1..Len(filterCache') :
            filterCache[i].key = filterCache'[j].key =>
                /\ filterCache'[j].timestamp >= filterCache[i].timestamp
                /\ filterCache'[j].data.fetch >= filterCache[i].data.fetch ]_vars

----------------------------------------------------------------------------
(* Properties of the search results                                        *)

\* The search was run and answered with its candidates
Answered == Searched /\ sResp.status = 200 /\ sResp.message = UNDEF
Candidates == sResp.candidates[1]

\* The store rows that match the request, whatever the query returned
Matching ==
    CASE sReq.endpoint = "practice-search" -> PracticeRows(sStore, sReq.q, sReq.specialty)
      [] sReq.endpoint = "email-domain-search" -> DomainRows(sStore, sReq.q)
      [] sReq.endpoint = "facility-group-search" -> GroupRows(sStore, sReq.q)
      [] OTHER -> {}

\* The name by which a row belongs to an entity of the request's kind
EntityName(d) ==
    CASE sReq.endpoint = "practice-search" -> d.provider_facility_name
      [] sReq.endpoint = "email-domain-search" -> d.provider_email_domain
      [] OTHER -> d.provider_facility_group_name

\* C21: a search result holds no two candidates whose names are equal when
\* compared case-insensitively, and every candidate's name is spelled as
\* some matched record spells it.
C21_NoCaseDuplicates ==
    Answered =>
        /\ \A i, j \in 1..Len(Candidates) :
              LowerCase(Candidates[i].name) = LowerCase(Candidates[j].name) => i = j
        /\ \A i \in 1..Len(Candidates) :
              Candidates[i].name \in {EntityName(d) : d \in Matching}

\* The rows among rs of the entity named n, taken as the endpoint takes them:
\* a practice by its name as spelled, a domain or a group by its trimmed,
\* lower-cased name
EntityKey(n) ==
    IF sReq.endpoint = "practice-search" THEN n ELSE LowerCase(Trim(n))

RecordsOf(n) == {d \in Matching : EntityKey(EntityName(d)) = EntityKey(n)}

\* v is a most frequent non-null value of the field among the records rs
IsMode(v, rs, Field(_)) ==
    LET having == {d \in rs : Field(d) # NULL}
        count(w) == Cardinality({d \in having : Field(d) = w})
    IN having # {} =>
          /\ v \in {Field(d) : d \in having}
          /\ \A d \in having : count(Field(d)) <= count(v)

\* C22: every attribute (specialty, location, size) of a practice-search
\* candidate is a most frequent value among the matching store records of
\* that practice that have a value for it.
C22_AttributesAreModes ==
    Answered /\ sReq.endpoint = "practice-search" =>
        \A i \in 1..Len(Candidates) :
            /\ IsMode(Candidates[i].specialty, RecordsOf(Candidates[i].name), SpecialtyOf)
            /\ IsMode(Candidates[i].location, RecordsOf(Candidates[i].name), LocationOf)
            /\ IsMode(Candidates[i].size, RecordsOf(Candidates[i].name), SizeOf)

\* The number of entities among the matching records
Entities == {EntityKey(EntityName(d)) : d \in Matching}

\* C23: a search returns at most `limit` candidates (as many as there are
\* entities when there are fewer), in non-increasing order of dispute count;
\* a candidate's dispute count is the number of matching store records of
\* its entity, and no entity left out has more matching records than a
\* candidate returned.
C23_RankedAndCapped ==
    Answered =>
        /\ Len(Candidates) <= ParseLimit(sReq.limit)
        /\ Len(Candidates) = ParseLimit(sReq.limit) \/ Len(Candidates) = Cardinality(Entities)
        /\ \A i \in 1..(Len(Candidates) - 1) :
              Candidates[i].disputeCount >= Candidates[i + 1].disputeCount
        /\ \A i \in 1..Len(Candidates) :
              Candidates[i].disputeCount = Cardinality(RecordsOf(Candidates[i].name))
        /\ \A d \in Matching :
              (\A i \in 1..Len(Candidates) :
                  EntityKey(Candidates[i].name) # EntityKey(EntityName(d)))
              => \A i \in 1..Len(Candidates) :
                    Cardinality(RecordsOf(EntityName(d))) <= Candidates[i].disputeCount

----------------------------------------------------------------------------
(* The dashboard with its entity search and autofill                       *)

Pending == Cardinality(timers \cup fetches)

\* The practice-name Autocomplete's onChange (shown for individual
\* providers), followed by the auto-select effect
PracticeNameOnChange(value) ==
    /\ dFilters.user_type = "individual_provider"
    /\ LongEnough(value) => Pending < MaxPending
    /\ LET picked == Includes(Names(practiceData), value)
           handled == IF picked
                      THEN HandlePracticeSelection(dFilters, practiceData, selectedPractice, value)
                      ELSE [filters |-> dFilters, selected |-> selectedPractice]
           data == IF LongEnough(value) THEN practiceData ELSE <<>>
           selected == IF LongEnough(value) THEN handled.selected ELSE NoPractice
           effect == AutoSelect(handled.filters, value, data, selected)
       IN /\ practiceName' = value
          /\ practiceData' = data
          /\ dFilters' = effect.filters
          /\ selectedPractice' = effect.selected
          /\ timers' = IF LongEnough(value)
                       THEN timers \cup {Search("practice", value, dFilters.specialty)}
                       ELSE timers
          /\ chosenSpecialty' = IF picked THEN NotChosen ELSE chosenSpecialty
    /\ UNCHANGED <<emailDomain, facilityGroup, loading, providerMetrics, peerMetrics, insights,
                   runs, invokeLog>>
    /\ UNCHANGED <<emailDomainSuggestions, facilityGroupSuggestions, fetches>>
    /\ UNCHANGED notUiVars

\* The email-domain Autocomplete's onChange (shown for law firms)
EmailDomainOnChange(value) ==
    /\ dFilters.user_type = "law_firm"
    /\ LongEnough(value) => Pending < MaxPending
    /\ emailDomain' = value
    /\ IF LongEnough(value)
       THEN /\ timers' = timers \cup {Search("email", value, UNDEF)}
            /\ UNCHANGED emailDomainSuggestions
       ELSE /\ emailDomainSuggestions' = <<>>
            /\ UNCHANGED timers
    /\ UNCHANGED <<dFilters, practiceName, facilityGroup, loading, providerMetrics, peerMetrics,
                   insights, runs, invokeLog>>
    /\ UNCHANGED <<practiceData, selectedPractice, facilityGroupSuggestions, fetches,
                   chosenSpecialty>>
    /\ UNCHANGED notUiVars

\* The group-name Autocomplete's onChange (shown for provider groups)
FacilityGroupOnChange(value) ==
    /\ dFilters.user_type = "provider_group"
    /\ LongEnough(value) => Pending < MaxPending
    /\ facilityGroup' = value
    /\ IF LongEnough(value)
       THEN /\ timers' = timers \cup {Search("group", value, UNDEF)}
            /\ UNCHANGED facilityGroupSuggestions
       ELSE /\ facilityGroupSuggestions' = <<>>
            /\ UNCHANGED timers
    /\ UNCHANGED <<dFilters, practiceName, emailDomain, loading, providerMetrics, peerMetrics,
                   insights, runs, invokeLog>>
    /\ UNCHANGED <<practiceData, selectedPractice, emailDomainSuggestions, fetches,
                   chosenSpecialty>>
    /\ UNCHANGED notUiVars

\* A timer fires: the search function runs up to its `await fetch` (its
\* query has 2 characters or more, or it would not have been scheduled)
TimerFires(t) ==
    /\ t \in timers
    /\ timers' = timers \ {t}
    /\ fetches' = fetches \cup {t}
    /\ UNCHANGED dashVars
    /\ UNCHANGED <<practiceData, selectedPractice, emailDomainSuggestions,
                   facilityGroupSuggestions, chosenSpecialty>>
    /\ UNCHANGED notUiVars

\* A search is answered with its list: the search function sets the
\* suggestions, and the auto-select effect runs on new practice data
SearchAnswered(t) ==
    /\ t \in fetches
    /\ fetches' = fetches \ {t}
    /\ CASE t.kind = "practice" ->
              \E data \in PracticeAnswers(t.query, t.specialty) :
                 LET effect == AutoSelect(dFilters, practiceName, data, selectedPractice)
                 IN /\ practiceData' = data
                    /\ dFilters' = effect.filters
                    /\ selectedPractice' = effect.selected
                    /\ UNCHANGED <<emailDomainSuggestions, facilityGroupSuggestions>>
         [] t.kind = "email" ->
              /\ emailDomainSuggestions' \in DomainAnswers(t.query)
              /\ UNCHANGED <<dFilters, practiceData, selectedPractice, facilityGroupSuggestions>>
         [] OTHER ->
              /\ facilityGroupSuggestions' \in GroupAnswers(t.query)
              /\ UNCHANGED <<dFilters, practiceData, selectedPractice, emailDomainSuggestions>>
    /\ UNCHANGED <<practiceName, emailDomain, facilityGroup, loading, providerMetrics,
                   peerMetrics, insights, runs, invokeLog>>
    /\ UNCHANGED <<timers, chosenSpecialty>>
    /\ UNCHANGED notUiVars

\* A search fails: the body has no list, or the fetch rejects and the
\* error is caught; the suggestions stay as they are
SearchFails(t) ==
    /\ t \in fetches
    /\ fetches' = fetches \ {t}
    /\ UNCHANGED dashVars
    /\ UNCHANGED <<practiceData, selectedPractice, emailDomainSuggestions,
                   facilityGroupSuggestions, timers, chosenSpecialty>>
    /\ UNCHANGED notUiVars

NextAutofill ==
    \/ \E u \in UserTypes : SelectUserType(u)
    \/ \E v \in PickedSpecialties : SelectSpecialty(v)
    \/ \E value \in PracticeNameTexts : PracticeNameOnChange(value)
    \/ \E value \in EmailDomainQueries : EmailDomainOnChange(value)
    \/ \E value \in FacilityGroupQueries : FacilityGroupOnChange(value)
    \/ \E t \in timers : TimerFires(t)
    \/ \E t \in fetches : SearchAnswered(t)
    \/ \E t \in fetches : SearchFails(t)

SpecAutofill == InitDash /\ [][NextAutofill]_vars

----------------------------------------------------------------------------
(* Properties of the dashboard's entity search and autofill                *)

\* The request a click on Run Analysis would send for the data of the user
NextRequest ==
    ProviderRequest(ProviderFilters(dFilters, practiceName, emailDomain, facilityGroup))

\* C24: once the user has chosen a specialty in the Select, and has not
\* picked a candidate since, the specialty sent with the next benchmark
\* request is that choice, whatever search responses arrive and whatever
\* the auto-select effect does in between.
C24_ExplicitSpecialtyKept ==
    chosenSpecialty \notin {NotChosen, UNDEF}
        => NextRequest.body.filters.specialty = chosenSpecialty

\* The text of an identifying field, its suggestion list, and the lists a
\* search for that text can be answered with
FieldText(kind) ==
    CASE kind = "practice" -> practiceName
      [] kind = "email" -> emailDomain
      [] OTHER -> facilityGroup

Suggestions(kind) ==
    CASE kind = "practice" -> Names(practiceData)
      [] kind = "email" -> emailDomainSuggestions
      [] OTHER -> facilityGroupSuggestions

CandidatesFor(kind, text) ==
    CASE kind = "practice" ->
           { Names(data) : data \in UNION { PracticeAnswers(text, sp) :
                                              sp \in {UNDEF} \cup FilterOptionSpecialties } }
      [] kind = "email" -> DomainAnswers(text)
      [] OTHER -> GroupAnswers(text)

Corresponds(kind) ==
    IF LongEnough(FieldText(kind))
    THEN Suggestions(kind) \in CandidatesFor(kind, FieldText(kind))
    ELSE Suggestions(kind) = <<>>

\* The identifying field the form shows for the user type
ShownKind ==
    CASE dFilters.user_type = "individual_provider" -> "practice"
      [] dFilters.user_type = "law_firm" -> "email"
      [] OTHER -> "group"

\* C27: when the last scheduled search is answered and it is a search of
\* the identifying field on show, the suggestion list of that field
\* corresponds to the text now in the field: the candidates for that text
\* when it has 2 characters or more, and empty otherwise.
C27_SuggestionsFollowText ==
    [][ \A t \in fetches :
          SearchAnswered(t) /\ timers' = {} /\ fetches' = {} /\ t.kind = ShownKind'
              => Corresponds(t.kind)' ]_vars

\* C28: under a user type other than individual provider (a practice can
\* only have been selected under an earlier profile), the next benchmark
\* request carries no state and no practice size, and the procedure it
\* leads to is not narrowed by a state.
C28_SwitchDropsAutofill ==
    dFilters.user_type # "individual_provider"
        => /\ NextRequest.body.filters.state = UNDEF
           /\ NextRequest.body.filters.practice_size = UNDEF
           /\ ProcedureCall(NextRequest).params.p_state = NULL

====
